---- MODULE Spec2Model ----
(***************************************************************************)
(* A state-machine model of the KV-cache-aware routing core:               *)
(*   - softmax_sample and DefaultWorkerSelector::select_worker            *)
(*     (lib/llm/src/kv_router/scheduler.rs) as operators;                  *)
(*   - KvScheduler: the scheduler loop, the membership monitor, the        *)
(*     callers of schedule / mark_prefill_completed / free, and the        *)
(*     cancellation token, as interleaved processes.                       *)
(*                                                                         *)
(* Logits are f64 in the source.  Here a logit is the exact integer        *)
(*   weight * prefill_tokens + block_size * decode_blocks                  *)
(* which is the source's logit multiplied by block_size, so comparisons of *)
(* logits agree with the source's up to floating-point rounding.           *)
(***************************************************************************)
EXTENDS Integers, Sequences, FiniteSets, TLC

(* ------------------------------ bounds -------------------------------- *)

\* keys of the logits maps given to softmax_sample are 1..MaxKeys
MaxKeys == 3
\* logit values given to softmax_sample are -MaxLogit..MaxLogit
MaxLogit == 2

Keys == 1..MaxKeys
LogitValues == (0 - MaxLogit)..MaxLogit
\* raw values delivered by the random number generator
RngValues == 0..MaxKeys
\* temperatures: 0 (the argmin guard) and one positive temperature
Temperatures == {0, 1}

(* ----------------------------- helpers -------------------------------- *)

\* results of softmax_sample: a key, or a panic
Panicked == [tag |-> "Panic"]
Key(k) == [tag |-> "Key", key |-> k]

\* Option<T>: None is {}, Some(v) is {v}
None == {}
Some(v) == {v}
Unwrap(o) == CHOOSE v \in o : TRUE

Range(f) == {f[x] : x \in DOMAIN f}

\* all maps from a subset of K to values in V (a HashMap<K, V>)
Maps(K, V) == UNION {[D -> V] : D \in SUBSET K}

\* the possible iteration orders of a HashMap whose key set is S
Orders(S) ==
  {o \in [1..Cardinality(S) -> S] : \A i, j \in 1..Cardinality(S) : i # j => o[i] # o[j]}

EmptyMap == [x \in {} |-> 0]

(* --------------------------- softmax_sample --------------------------- *)

\* the fold of f64::min over the values, started from a finite 0 instead of
\* f64::INFINITY
MinLogit_FromZero(logits) ==
  CHOOSE m \in Range(logits) \cup {0} : \A v \in Range(logits) \cup {0} : m <= v

\* logits.values().fold(f64::INFINITY, |a, &b| a.min(b)), for a non-empty map
MinLogit(logits) ==
  CHOOSE m \in Range(logits) : \A v \in Range(logits) : m <= v

\* the keys with the minimum logit, in the map's iteration order
MinKeys(logits, order) ==
  SelectSeq(order, LAMBDA k : logits[k] = MinLogit(logits))

\* rng.random_range(0..=n): the upper end included
RandomRange_Inclusive(n, rnd) ==
  rnd % (n + 1)

\* rng.random_range(0..n) on the raw value rnd, for n > 0
RandomRange(n, rnd) ==
  rnd % n

\* The inverse-CDF scan over the probabilities of n keys: the (0-based) index
\* at which `sample <= cumsum` first holds, or n when the loop ends without
\* returning.  Every probability is positive, so every index is hit by some
\* sample; with one key the only probability is exactly 1.0 >= sample.
SampleScan(n, rnd) ==
  IF n = 1 THEN 0 ELSE rnd % (n + 1)

\* the iteration order of a HashMap with key set S, given a permutation perm
\* of a superset of S (the hasher's order)
IterOrder(S, perm) ==
  SelectSeq(perm, LAMBDA k : k \in S)

\* softmax_sample(logits, temperature), with the hasher's order and the raw
\* random value made explicit.  Returns Key(k), or Panicked: on an empty map,
\* on an empty range given to random_range, on an index out of bounds.
softmax_sample(logits, temperature, perm, rnd) ==
  IF DOMAIN logits = {} THEN Panicked
  ELSE IF temperature = 0 THEN
    LET min_keys == MinKeys(logits, IterOrder(DOMAIN logits, perm))
    IN IF Len(min_keys) = 0 THEN Panicked
       ELSE LET index == RandomRange(Len(min_keys), rnd)
            IN IF index >= Len(min_keys) THEN Panicked
               ELSE Key(min_keys[index + 1])
  ELSE
    LET keys == IterOrder(DOMAIN logits, perm)
        n == Len(keys)
        i == SampleScan(n, rnd)
    IN IF i < n THEN Key(keys[i + 1]) ELSE Key(keys[n])

(* ------------------- DefaultWorkerSelector::select_worker ------------- *)

\* Option<ModelRuntimeConfig> of a worker: NoConfig is None; a present config
\* either has no "disaggregation_mode" entry in runtime_data ("no_mode") or
\* has the entry with the given value
NoConfig == "none"
ConfigKinds == {"no_mode", "prefill_and_decode", "prefill", "decode"}

\* usize's plain division, which rounds down
DivCeil_Floor(a, b) ==
  a \div b

\* usize::div_ceil
DivCeil(a, b) ==
  (a + b - 1) \div b

\* map.get(k).unwrap_or(d)
GetOr(map, k, d) == IF k \in DOMAIN map THEN map[k] ELSE d

\* overlap_weight: the request's override if it has one, else the config's
OverlapWeight(selector, request) ==
  IF request.weight_override # None THEN Unwrap(request.weight_override)
  ELSE selector.overlap_score_weight

\* temperature: the request's override if it has one, else the config's
Temperature(selector, request) ==
  IF request.temperature_override # None THEN Unwrap(request.temperature_override)
  ELSE selector.router_temperature

\* the logit with the missing decode_blocks entry rounded up instead of down
Logit_DecodeDefaultCeil(selector, request, block_size, w) ==
  LET prefill_token == GetOr(request.prefill_tokens, w, request.isl_tokens)
      decode_block == GetOr(request.decode_blocks, w, DivCeil(prefill_token, block_size))
  IN OverlapWeight(selector, request) * prefill_token + block_size * decode_block

\* block_size * logit of worker w:
\*   logit = overlap_weight * (prefill_token / block_size) + decode_block
Logit(selector, request, block_size, w) ==
  LET prefill_token == GetOr(request.prefill_tokens, w, request.isl_tokens)
      decode_block == GetOr(request.decode_blocks, w, prefill_token \div block_size)
  IN OverlapWeight(selector, request) * prefill_token + block_size * decode_block

\* is_pd_separated of a worker's Option<config>
is_pd_separated(cfg) ==
  IF cfg = NoConfig THEN FALSE ELSE cfg # "prefill_and_decode"

\* whether worker w gets an entry in worker_logits
IsCandidate(selector, workers, request, w) ==
  IF selector.use_isl_threshold
  THEN \/ ~is_pd_separated(workers[w]) /\ request.isl_tokens < selector.isl_threshold
       \/ is_pd_separated(workers[w]) /\ request.isl_tokens >= selector.isl_threshold
  ELSE TRUE

\* the worker_logits map built by the loop over workers.keys()
WorkerLogits(selector, workers, request, block_size) ==
  [w \in {x \in DOMAIN workers : IsCandidate(selector, workers, request, x)}
     |-> Logit(selector, request, block_size, w)]

\* select_worker: Ok(WorkerSelectionResult), Err(NoEndpoints), or a panic
select_worker(selector, workers, request, block_size, perm, rnd) ==
  IF request.isl_tokens <= 0 THEN [tag |-> "Panic"]
  ELSE IF DOMAIN workers = {} THEN [tag |-> "NoEndpoints"]
  ELSE
    LET worker_logits == WorkerLogits(selector, workers, request, block_size)
        sampled ==
          softmax_sample(worker_logits, Temperature(selector, request), perm, rnd)
    IN IF sampled.tag = "Panic" THEN [tag |-> "Panic"]
       ELSE LET best_worker_id == sampled.key
            IN [tag |-> "Ok",
                worker_id |-> best_worker_id,
                required_blocks |-> DivCeil(request.isl_tokens, block_size),
                overlap_blocks |-> GetOr(request.overlaps, best_worker_id, 0)]

(* ------------------------------ state ---------------------------------- *)

\* schedule is called at most MaxRequests times; call c carries request id c
MaxRequests == 2
\* the block_size given to KvScheduler::start
BlockSize == 4
\* capacity of the request channel
QueueCapacity == 1024

\* worker ids of the fleet
Workers == {1, 2}
Requests == 1..MaxRequests
\* values of the instances watch channel: the fleet up, the fleet down
InstanceSets == {Workers, {}}
\* (request id present, update_states) of the requests
RequestShapes == {<<TRUE, TRUE>>, <<TRUE, FALSE>>, <<FALSE, TRUE>>}
\* input-token counts of the requests
IslValues == {6}
\* overlap scores of the requests: the odd calls have one cached block on
\* worker 1, the even calls have no score at all
OverlapsOf(c) == IF c % 2 = 1 THEN [w \in {1} |-> 1] ELSE EmptyMap
\* runtime configs published for the workers of the scheduler
PublishedConfigs == {EmptyMap, [w \in {1} |-> "prefill"]}

VARIABLES
  \* --- softmax_sample driver
  sm_logits,            \* the logits map
  sm_temperature,       \* the temperature
  sm_result,            \* None before the call, Some(result) after
  \* --- select_worker driver
  sel_selector,         \* the DefaultWorkerSelector the call is made on
  sel_workers,          \* the workers map of the call
  sel_request,          \* the SchedulingRequest of the call
  sel_result,           \* None before the call, Some(result) after
  \* --- direct callers of KvScheduler::add_request
  addReturned,          \* per request id, the last call: the ledger's result
                        \* and what the caller was given
  \* --- the subscriber task (start_kv_router_background)
  subPc,                \* "start", "replay", "cleanup", "loop", "done", "failed"
  router_reset_states,  \* the reset flag
  downloaded,           \* result of the snapshot download: None, Some(events)
  replayed,             \* number of snapshot events sent so far
  indexerOpen,          \* the indexer still holds the receiver of kv_events_tx
  kv_events,            \* the events the indexer received, in order
  stream,               \* the durable stream: messages not yet dequeued
  dequeued,             \* the messages dequeued so far, in order
  consumers,            \* the durable consumers on the stream
  router_entries,       \* the keys of the live-routers directory
  reaped,               \* consumers cleanup_orphaned_consumers tried to delete
  router_replicas,      \* watch events on the live-routers prefix, pending
  peerDeletes,          \* router keys whose consumer the loop tried to delete
  subCancelled,         \* the subscriber's cancellation token
  ownShutdowns,         \* number of nats_queue.shutdown(None) calls
  instance_event_rx,    \* watch events on the generate endpoint, pending
  dequeue_ready,        \* the dequeue_task future would complete when polled
  tick_due,             \* check_interval has a tick to deliver
  ticks,                \* number of ticks that have come due
  snapshot_resources,   \* the snapshot resources are Some
  sub_instances,        \* value of SnapshotResources::instances_rx (worker ids)
  indexer_workers,      \* the indexer's answer to get_workers: None or Some(ids)
  snapshot_lock,        \* holder of the snapshot lock in etcd, if any
  peerPc,               \* a peer router of the component: "idle", "section"
  message_count,        \* the count get_stream_messages gave the last tick, if any
  cycle,                \* the steps of the last snapshot cycle, in order
  remove_worker_tx,     \* the worker ids sent on remove_worker_tx, in order
  purged,               \* how many of the dequeued messages are purged from the stream
  dump_events,          \* the indexer's dump held by purge_then_snapshot, if any
  snapshot_object,      \* the snapshot object in the store, if any
  \* --- the response sequence of AddressedPushRouter::generate
  incoming,             \* the messages the response channel will still deliver
  received,             \* the messages delivered so far, in order
  is_complete_final,    \* the closure's flag
  emitted,              \* the items the sequence has yielded, in order
  streamEnded,          \* the sequence has ended
  is_stopped,           \* engine_ctx.is_stopped(): the caller cancelled
  \* --- the call of AddressedPushRouter::generate
  genPc,                \* position of the call
  genLog,               \* what the call did on the two planes, in order
  genResult,            \* None while the call runs, Some(result) after
  \* --- environment of the scheduler
  cancelled,            \* the runtime's primary cancellation token
  instances,            \* value of the instances watch channel (instance ids)
  runtime_configs,      \* value of the runtime-configs watch channel
  membershipChanged,    \* a watch channel has been given a new value
  senderAlive,          \* the KvScheduler (holder of request_tx) is alive
  \* --- membership monitor task
  monPc,                \* "wait", "rebuild", "done"
  monDirty,             \* a watch value the monitor has not seen
  new_instances,        \* the monitor's copy of instances
  new_configs,          \* the monitor's copy of runtime_configs
  \* --- shared state
  slotsWorkers,         \* the ledger's worker set
  ledger,               \* the ledger: request id -> reservation
  workers_with_configs, \* worker id -> Option<config>, behind the RwLock
  queue,                \* the request channel (requests by call number)
  selector,             \* the DefaultWorkerSelector's fields
  \* --- scheduler task
  schedPc,              \* position of the scheduler loop
  cur,                  \* the request being decided, with the fields filled in
  addInFlight,          \* the add_request call the loop is awaiting
  \* --- callers
  issued,               \* number of schedule calls made
  req,                  \* the SchedulingRequest of each call
  cpc,                  \* position of each caller
  result,               \* what schedule returned to each caller
  \* --- observations
  enqOrder,             \* the requests in the order they entered the channel
  deqOrder,             \* the requests in the order the loop dequeued them
  decided,              \* per request, the outcome of the loop's decision
  opsLog,               \* per request id, the calls the ledger saw, in order
  lastEvent             \* the last KVHitRateEvent published, and for which request

smVars == <<sm_logits, sm_temperature, sm_result>>
selVars == <<sel_selector, sel_workers, sel_request, sel_result>>
apiVars == <<addReturned>>
\* the subscriber's snapshot and worker-removal state, and its inputs
snapInputVars == <<snapshot_resources, sub_instances, indexer_workers>>
\* the stream's purge mark and the snapshot on its way to the store
storeVars == <<purged, dump_events, snapshot_object>>
snapVars == <<instance_event_rx, dequeue_ready, tick_due, ticks, snapInputVars, storeVars,
              snapshot_lock, peerPc, message_count, cycle, remove_worker_tx>>
subVars == <<subPc, router_reset_states, downloaded, replayed, indexerOpen,
             kv_events, stream, dequeued, consumers, router_entries, reaped,
             router_replicas, peerDeletes, subCancelled, ownShutdowns, snapVars>>
genVars == <<genPc, genLog, genResult>>
rsVars == <<incoming, received, is_complete_final, emitted, streamEnded, is_stopped,
            genVars>>
\* the parts driven on their own
unitVars == <<smVars, selVars, apiVars, subVars, rsVars>>
envVars == <<cancelled, instances, runtime_configs, membershipChanged, senderAlive>>
monVars == <<monPc, monDirty, new_instances, new_configs>>
sharedVars == <<slotsWorkers, ledger, workers_with_configs, queue, selector>>
schedVars == <<schedPc, cur, addInFlight>>
callerVars == <<issued, req, cpc, result>>
obsVars == <<enqOrder, deqOrder, decided, opsLog, lastEvent>>
kvVars == <<envVars, monVars, sharedVars, schedVars, callerVars, obsVars>>
vars == <<unitVars, kvVars>>
\* all but the softmax_sample driver, all but the select_worker driver
exceptSmVars == <<selVars, apiVars, subVars, rsVars, kvVars>>
exceptSelVars == <<smVars, apiVars, subVars, rsVars, kvVars>>
exceptSubVars == <<smVars, selVars, apiVars, rsVars, kvVars>>
exceptRsVars == <<smVars, selVars, apiVars, subVars, kvVars>>

NoReq == [tag |-> "none"]
NoCur == [tag |-> "none"]
NoAdd == [tag |-> "none"]

\* a map that also has a key for every worker with a config
ConfigMap_ConfiguredWorkersToo(ids, configs) ==
  [w \in ids \cup DOMAIN configs |-> GetOr(configs, w, NoConfig)]

\* the worker -> Option<config> map built from instance ids and a configs map
ConfigMap(ids, configs) ==
  [w \in ids |-> GetOr(configs, w, NoConfig)]

(* ------------------- the ActiveSequences ledger ----------------------- *)
(* The ledger's code is not part of the sources at hand; these operators  *)
(* follow its documented contract.                                        *)

RECURSIVE SumOver(_, _)
SumOver(S, f) ==
  IF S = {} THEN 0
  ELSE LET x == CHOOSE y \in S : TRUE IN f[x] + SumOver(S \ {x}, f)

Max(a, b) == IF a >= b THEN a ELSE b

\* potential_blocks_and_tokens: per known worker, the prefill tokens and the
\* decode blocks the worker would have with the request scheduled on it
PotentialBlocksAndTokens(led, known, isl_tokens, overlaps, block_size) ==
  LET on(w) == {i \in DOMAIN led : led[i].worker = w}
      tokensOf == [i \in DOMAIN led |->
                     IF led[i].phase = "Prefill" THEN led[i].isl_tokens ELSE 0]
      blocksOf == [i \in DOMAIN led |-> DivCeil(led[i].isl_tokens, block_size)]
  IN [prefill_tokens |->
        [w \in known |-> SumOver(on(w), tokensOf)
                          + Max(0, isl_tokens - GetOr(overlaps, w, 0) * block_size)],
      decode_blocks |->
        [w \in known |-> SumOver(on(w), blocksOf) + DivCeil(isl_tokens, block_size)]]

\* add_request: records a reservation; an id already present is DuplicateRequest
LedgerAdd(led, id, isl_tokens, overlap, worker) ==
  IF id \in DOMAIN led
  THEN [led |-> led, res |-> "DuplicateRequest"]
  ELSE [led |-> [i \in DOMAIN led \cup {id} |->
                   IF i = id
                   THEN [worker |-> worker, phase |-> "Prefill",
                         isl_tokens |-> isl_tokens, overlap |-> overlap]
                   ELSE led[i]],
        res |-> "Ok"]

\* mark_prefill_completed: Prefill -> Decode
LedgerMark(led, id) ==
  IF id \notin DOMAIN led THEN [led |-> led, res |-> "UnknownRequest"]
  ELSE IF led[id].phase # "Prefill" THEN [led |-> led, res |-> "IllegalTransition"]
  ELSE [led |-> [led EXCEPT ![id].phase = "Decode"], res |-> "Ok"]

\* free: removes the entry; an absent id is a no-op success
LedgerFree(led, id) ==
  [led |-> [i \in DOMAIN led \ {id} |-> led[i]], res |-> "Ok"]

\* update_workers: the entries of removed workers are dropped
LedgerUpdateWorkers(led, ids) ==
  [i \in {j \in DOMAIN led : led[j].worker \in ids} |-> led[i]]

\* the ledger saw call op for request id, with result res
Logged(log, id, op, worker, res) ==
  [log EXCEPT ![id] = Append(@, [op |-> op, worker |-> worker, res |-> res])]

(* --------------------------- KvScheduler::start ----------------------- *)

NoResult == [tag |-> "none"]
Routed(w) == [tag |-> "Ok", worker_id |-> w]
Failed(e) == [tag |-> "Err", err |-> e]
NoSelection == [tag |-> "none"]
NoEvent == [tag |-> "none"]

KvInit ==
  /\ cancelled = FALSE
  /\ instances = Workers
  /\ runtime_configs = EmptyMap
  /\ membershipChanged = FALSE
  /\ senderAlive = TRUE
  /\ monPc = "wait"
  /\ monDirty = FALSE
  /\ new_instances = {}
  /\ new_configs = EmptyMap
  /\ slotsWorkers = instances
  /\ ledger = EmptyMap
  /\ workers_with_configs = ConfigMap(instances, runtime_configs)
  /\ queue = <<>>
  /\ selector = [overlap_score_weight |-> 1, router_temperature |-> 0,
                 use_isl_threshold |-> FALSE, isl_threshold |-> 0]
  /\ schedPc = "top"
  /\ cur = NoCur
  /\ addInFlight = NoAdd
  /\ issued = 0
  /\ req = [c \in Requests |-> NoReq]
  /\ cpc = [c \in Requests |-> "idle"]
  /\ result = [c \in Requests |-> NoResult]
  /\ enqOrder = <<>>
  /\ deqOrder = <<>>
  /\ decided = [c \in Requests |-> "none"]
  /\ opsLog = [c \in Requests |-> <<>>]
  /\ lastEvent = NoEvent

(* ------------------------------ environment --------------------------- *)

\* the instances watch channel gets a new value
InstancesChange ==
  /\ ~membershipChanged
  /\ membershipChanged' = TRUE
  /\ \E ids \in InstanceSets :
       /\ ids # instances
       /\ instances' = ids
  /\ monDirty' = TRUE
  /\ UNCHANGED <<unitVars, cancelled, runtime_configs, senderAlive,
                 monPc, new_instances, new_configs, sharedVars, schedVars,
                 callerVars, obsVars>>

\* the runtime-configs watch channel gets a new value
ConfigsChange ==
  /\ ~membershipChanged
  /\ membershipChanged' = TRUE
  /\ \E configs \in PublishedConfigs :
       /\ configs # runtime_configs
       /\ runtime_configs' = configs
  /\ monDirty' = TRUE
  /\ UNCHANGED <<unitVars, cancelled, instances, senderAlive,
                 monPc, new_instances, new_configs, sharedVars, schedVars,
                 callerVars, obsVars>>

\* the shutdown signal: the primary cancellation token is cancelled
Cancel ==
  /\ ~cancelled
  /\ cancelled' = TRUE
  /\ UNCHANGED <<unitVars, instances, runtime_configs, membershipChanged,
                 senderAlive, monVars, sharedVars, schedVars, callerVars, obsVars>>

\* the KvScheduler is dropped, and request_tx with it; no call borrows it
DropKvScheduler ==
  /\ senderAlive
  /\ \A c \in Requests : cpc[c] # "waiting"
  /\ senderAlive' = FALSE
  /\ UNCHANGED <<unitVars, cancelled, instances, runtime_configs,
                 membershipChanged, monVars, sharedVars, schedVars, callerVars, obsVars>>

(* -------------------------- membership monitor ------------------------ *)

\* select!: the cancellation branch
MonCancelled ==
  /\ monPc = "wait" /\ cancelled
  /\ monPc' = "done"
  /\ UNCHANGED <<unitVars, envVars, monDirty, new_instances, new_configs,
                 sharedVars, schedVars, callerVars, obsVars>>

\* select!: a watch channel changed; borrow_and_update both, update_workers
MonUpdateWorkers ==
  /\ monPc = "wait" /\ monDirty
  /\ monDirty' = FALSE
  /\ new_instances' = instances
  /\ new_configs' = runtime_configs
  /\ slotsWorkers' = instances
  /\ ledger' = LedgerUpdateWorkers(ledger, instances)
  /\ monPc' = "rebuild"
  /\ UNCHANGED <<unitVars, envVars, workers_with_configs, queue, selector,
                 schedVars, callerVars, obsVars>>

\* under the write lock: clear the map and insert every instance
MonRebuild ==
  /\ monPc = "rebuild"
  /\ workers_with_configs' = ConfigMap(new_instances, new_configs)
  /\ new_instances' = {}
  /\ new_configs' = EmptyMap
  /\ monPc' = "wait"
  /\ UNCHANGED <<unitVars, envVars, monDirty, slotsWorkers, ledger, queue, selector,
                 schedVars, callerVars, obsVars>>

(* ----------------------------- scheduler loop ------------------------- *)

\* the callers still awaiting the reply of a request in S: their reply
\* sender is dropped, and resp_rx.await maps the error to SubscriberShutdown
ReplyDropped(S) ==
  /\ cpc' = [c \in Requests |->
               IF c \in S /\ cpc[c] = "waiting" THEN "failed" ELSE cpc[c]]
  /\ result' = [c \in Requests |->
                  IF c \in S /\ cpc[c] = "waiting"
                  THEN Failed("SubscriberShutdown") ELSE result[c]]

\* the task has ended: request_rx is dropped
ReceiverDropped == schedPc \in {"done", "panicked"}

\* the SchedulingRequest of call c as select_worker reads it
RequestOf(c, loads) ==
  [isl_tokens |-> req[c].isl_tokens,
   overlaps |-> req[c].overlaps,
   decode_blocks |-> loads.decode_blocks,
   prefill_tokens |-> loads.prefill_tokens,
   weight_override |-> req[c].weight_override,
   temperature_override |-> req[c].temperature_override]

\* the top of the loop: the cancellation check
SchedTop ==
  /\ schedPc = "top"
  /\ IF cancelled
     THEN /\ schedPc' = "done"
          /\ queue' = <<>>
          /\ ReplyDropped(Range(queue))
     ELSE /\ schedPc' = "recv"
          /\ UNCHANGED <<queue, cpc, result>>
  /\ UNCHANGED <<unitVars, envVars, monVars, slotsWorkers, ledger,
                 workers_with_configs, selector, cur, addInFlight, issued, req,
                 obsVars>>

\* a receive that takes the newest message of the channel
Receive_Newest(q) ==
  [item |-> q[Len(q)], rest |-> SubSeq(q, 1, Len(q) - 1)]

\* request_rx.recv() on a non-empty channel: the oldest message
Receive(q) ==
  [item |-> Head(q), rest |-> Tail(q)]

\* request_rx.recv() yields a request; the loop starts deciding it
SchedRecv ==
  /\ schedPc = "recv" /\ queue # <<>>
  /\ cur' = [c |-> Receive(queue).item, decode_blocks |-> EmptyMap,
             prefill_tokens |-> EmptyMap, selection |-> NoSelection]
  /\ queue' = Receive(queue).rest
  /\ deqOrder' = Append(deqOrder, Receive(queue).item)
  /\ schedPc' = "potential"
  /\ UNCHANGED <<unitVars, envVars, monVars, slotsWorkers, ledger,
                 workers_with_configs, selector, addInFlight, callerVars,
                 enqOrder, decided, opsLog, lastEvent>>

\* request_rx.recv() yields None: the channel is empty and every sender gone
SchedRecvClosed ==
  /\ schedPc = "recv" /\ queue = <<>> /\ ~senderAlive
  /\ schedPc' = "done"
  /\ UNCHANGED <<unitVars, envVars, monVars, sharedVars, cur, addInFlight,
                 callerVars, obsVars>>

\* slots.potential_blocks_and_tokens(..).await fills the request's fields
SchedPotential ==
  /\ schedPc = "potential"
  /\ LET loads == PotentialBlocksAndTokens(ledger, slotsWorkers,
                    req[cur.c].isl_tokens, req[cur.c].overlaps, BlockSize)
     IN cur' = [cur EXCEPT !.decode_blocks = loads.decode_blocks,
                           !.prefill_tokens = loads.prefill_tokens]
  /\ schedPc' = "select"
  /\ UNCHANGED <<unitVars, envVars, monVars, sharedVars, addInFlight,
                 callerVars, obsVars>>

\* the match with the NoEndpoints / AllWorkersBusy arms ending the loop
SelectionArm_ErrorsBreak(tag) ==
  CASE tag = "Ok" -> "publish"
    [] tag \in {"NoEndpoints", "AllWorkersBusy"} -> "done"
    [] OTHER -> "panicked"

\* the arm of `match selector.select_worker(..)` the loop takes: Ok goes on
\* to publish, NoEndpoints and AllWorkersBusy sleep and `continue`; the
\* selector has no other error, and a panic ends the task
SelectionArm(tag) ==
  CASE tag = "Ok" -> "publish"
    [] tag \in {"NoEndpoints", "AllWorkersBusy"} -> "sleep"
    [] OTHER -> "panicked"

\* workers_scheduler.read().await.clone(), then selector.select_worker
SchedSelect ==
  /\ schedPc = "select"
  /\ \E perm \in Orders(Workers), rnd \in 0..Cardinality(Workers) :
       LET selection == select_worker(selector, workers_with_configs,
                                      RequestOf(cur.c, cur), BlockSize, perm, rnd)
       IN /\ cur' = [cur EXCEPT !.selection = selection,
                                !.decode_blocks = EmptyMap,
                                !.prefill_tokens = EmptyMap]
          /\ decided' = [decided EXCEPT ![cur.c] = selection.tag]
          /\ schedPc' = SelectionArm(selection.tag)
          /\ IF selection.tag = "Panic"
             THEN /\ queue' = <<>>
                  /\ ReplyDropped(Range(queue) \cup {cur.c})
             ELSE UNCHANGED <<queue, cpc, result>>
  /\ UNCHANGED <<unitVars, envVars, monVars, slotsWorkers, ledger,
                 workers_with_configs, selector, addInFlight, issued, req,
                 enqOrder, deqOrder, opsLog, lastEvent>>

\* the KVHitRateEvent built from the selection
EventOf(selection) ==
  [worker_id |-> selection.worker_id,
   isl_blocks |-> selection.required_blocks,
   overlap_blocks |-> selection.overlap_blocks]

\* a failed publish ends the loop
AfterPublish_FailureBreaks(ok) ==
  IF ok THEN "respond" ELSE "done"

\* where the loop goes after ns.publish returned: `if let Err(e)` only logs
AfterPublish(ok) ==
  "respond"

\* ns.publish(KV_HIT_RATE_SUBJECT, &event).await; a failure is logged
SchedPublish ==
  /\ schedPc = "publish"
  /\ \E ok \in BOOLEAN :
       /\ lastEvent' =
            IF ok THEN [tag |-> "event", c |-> cur.c, event |-> EventOf(cur.selection)]
            ELSE lastEvent
       /\ schedPc' = AfterPublish(ok)
  /\ UNCHANGED <<unitVars, envVars, monVars, sharedVars, cur, addInFlight,
                 callerVars, enqOrder, deqOrder, decided, opsLog>>

\* the update_states check and the `let Some(request_id)` of the loop, with
\* the update_states check left out
NeedsAdd_IgnoreUpdateStates(request) ==
  request.maybe_request_id # None

\* whether the loop goes on to slots.add_request after replying
NeedsAdd(request) ==
  request.update_states /\ request.maybe_request_id # None

\* request.respond(response), then the checks that lead to slots.add_request
SchedRespond ==
  /\ schedPc = "respond"
  /\ IF cpc[cur.c] = "waiting"
     THEN /\ cpc' = [cpc EXCEPT ![cur.c] = "routed"]
          /\ result' = [result EXCEPT ![cur.c] = Routed(cur.selection.worker_id)]
     ELSE UNCHANGED <<cpc, result>>
  /\ IF NeedsAdd(req[cur.c])
     THEN /\ addInFlight' = [tag |-> "add",
                             request_id |-> Unwrap(req[cur.c].maybe_request_id),
                             isl_tokens |-> req[cur.c].isl_tokens,
                             overlap |-> cur.selection.overlap_blocks,
                             worker_id |-> cur.selection.worker_id]
          /\ schedPc' = "add"
          /\ cur' = cur
     ELSE /\ addInFlight' = addInFlight
          /\ schedPc' = "top"
          /\ cur' = NoCur
  /\ UNCHANGED <<unitVars, envVars, monVars, sharedVars, issued, req, obsVars>>

\* the ledger commits the add_request it was sent
LedgerAddRequest ==
  /\ addInFlight # NoAdd
  /\ LET r == LedgerAdd(ledger, addInFlight.request_id, addInFlight.isl_tokens,
                        addInFlight.overlap, addInFlight.worker_id)
     IN /\ ledger' = r.led
        /\ opsLog' = Logged(opsLog, addInFlight.request_id, "add",
                            addInFlight.worker_id, r.res)
  /\ addInFlight' = NoAdd
  /\ UNCHANGED <<unitVars, envVars, monVars, slotsWorkers, workers_with_configs,
                 queue, selector, schedPc, cur, callerVars, enqOrder, deqOrder,
                 decided, lastEvent>>

\* the loop goes on without awaiting the add_request it issued
AddRequestAwaited_Spawned ==
  TRUE

\* slots.add_request(..).await has returned
AddRequestAwaited ==
  addInFlight = NoAdd

\* the add_request returns (an error is logged); the loop goes to its top
SchedAddReturn ==
  /\ schedPc = "add"
  /\ AddRequestAwaited
  /\ schedPc' = "top"
  /\ cur' = NoCur
  /\ UNCHANGED <<unitVars, envVars, monVars, sharedVars, addInFlight, callerVars,
                 obsVars>>

\* Err(NoEndpoints) / Err(AllWorkersBusy): sleep 5 ms, then `continue`, which
\* drops the request and the reply sender in it
SchedSleepContinue ==
  /\ schedPc = "sleep"
  /\ ReplyDropped({cur.c})
  /\ schedPc' = "top"
  /\ cur' = NoCur
  /\ UNCHANGED <<unitVars, envVars, monVars, sharedVars, addInFlight, issued, req,
                 obsVars>>

(* -------------------------------- callers ----------------------------- *)

\* KvScheduler::schedule up to the await of the reply: builds the request and
\* sends it; a send to a dropped receiver fails with SubscriberShutdown
Schedule ==
  /\ senderAlive /\ issued < MaxRequests
  /\ LET c == issued + 1 IN
     /\ \E shape \in RequestShapes, isl \in IslValues :
          req' = [req EXCEPT ![c] =
                    [maybe_request_id |-> IF shape[1] THEN Some(c) ELSE None,
                     isl_tokens |-> isl,
                     overlaps |-> OverlapsOf(c), update_states |-> shape[2],
                     weight_override |-> None, temperature_override |-> None]]
     /\ IF ReceiverDropped
        THEN /\ cpc' = [cpc EXCEPT ![c] = "failed"]
             /\ result' = [result EXCEPT ![c] = Failed("SubscriberShutdown")]
             /\ UNCHANGED <<queue, enqOrder>>
        ELSE /\ Len(queue) < QueueCapacity
             /\ queue' = Append(queue, c)
             /\ enqOrder' = Append(enqOrder, c)
             /\ cpc' = [cpc EXCEPT ![c] = "waiting"]
             /\ result' = result
  /\ issued' = issued + 1
  /\ UNCHANGED <<unitVars, envVars, monVars, slotsWorkers, ledger,
                 workers_with_configs, selector, schedVars, deqOrder, decided,
                 opsLog, lastEvent>>

\* the caller drops the schedule future, and resp_rx with it
CallerAbandon(c) ==
  /\ cpc[c] = "waiting"
  /\ cpc' = [cpc EXCEPT ![c] = "abandoned"]
  /\ UNCHANGED <<unitVars, envVars, monVars, sharedVars, schedVars, issued, req,
                 result, obsVars>>

\* KvScheduler::mark_prefill_completed, by a caller that was given a worker
MarkPrefillCompleted(c) ==
  /\ senderAlive /\ cpc[c] = "routed"
  /\ req[c].update_states /\ req[c].maybe_request_id # None
  /\ LET r == LedgerMark(ledger, Unwrap(req[c].maybe_request_id))
     IN /\ ledger' = r.led
        /\ opsLog' = Logged(opsLog, Unwrap(req[c].maybe_request_id),
                            "mark_prefill_completed", 0, r.res)
  /\ cpc' = [cpc EXCEPT ![c] = "marked"]
  /\ UNCHANGED <<unitVars, envVars, monVars, slotsWorkers, workers_with_configs,
                 queue, selector, schedVars, issued, req, result, enqOrder,
                 deqOrder, decided, lastEvent>>

\* KvScheduler::free, by a caller that was given a worker
Free(c) ==
  /\ senderAlive /\ cpc[c] \in {"routed", "marked"}
  /\ req[c].update_states /\ req[c].maybe_request_id # None
  /\ LET r == LedgerFree(ledger, Unwrap(req[c].maybe_request_id))
     IN /\ ledger' = r.led
        /\ opsLog' = Logged(opsLog, Unwrap(req[c].maybe_request_id),
                            "free", 0, r.res)
  /\ cpc' = [cpc EXCEPT ![c] = "freed"]
  /\ UNCHANGED <<unitVars, envVars, monVars, slotsWorkers, workers_with_configs,
                 queue, selector, schedVars, issued, req, result, enqOrder,
                 deqOrder, decided, lastEvent>>

(* ----------------------------- specifications ------------------------- *)

SmIdle ==
  /\ sm_logits = EmptyMap
  /\ sm_temperature = 0
  /\ sm_result = None

KvIdle ==
  /\ KvInit

SelIdle ==
  /\ sel_selector = [overlap_score_weight |-> 1, router_temperature |-> 0,
                     use_isl_threshold |-> FALSE, isl_threshold |-> 0]
  /\ sel_workers = EmptyMap
  /\ sel_request = NoReq
  /\ sel_result = None

NoCall == [tag |-> "none"]

ApiIdle ==
  addReturned = [id \in Requests |-> NoCall]

SnapIdle ==
  /\ instance_event_rx = <<>>
  /\ dequeue_ready = FALSE
  /\ tick_due = FALSE
  /\ ticks = 0
  /\ snapshot_resources = FALSE
  /\ sub_instances = {}
  /\ indexer_workers = None
  /\ snapshot_lock = None
  /\ peerPc = "idle"
  /\ message_count = None
  /\ cycle = <<>>
  /\ remove_worker_tx = <<>>
  /\ purged = 0
  /\ dump_events = None
  /\ snapshot_object = None

SubIdle ==
  /\ subPc = "failed"
  /\ router_reset_states = FALSE
  /\ downloaded = None
  /\ replayed = 0
  /\ indexerOpen = TRUE
  /\ kv_events = <<>>
  /\ stream = <<>>
  /\ dequeued = <<>>
  /\ consumers = {}
  /\ router_entries = {}
  /\ reaped = None
  /\ router_replicas = <<>>
  /\ peerDeletes = {}
  /\ subCancelled = FALSE
  /\ ownShutdowns = 0
  /\ SnapIdle

RsIdle ==
  /\ incoming = <<>>
  /\ received = <<>>
  /\ is_complete_final = FALSE
  /\ emitted = <<>>
  /\ streamEnded = TRUE
  /\ is_stopped = FALSE
  /\ genPc = "idle"
  /\ genLog = <<>>
  /\ genResult = None

Init == SmIdle /\ SelIdle /\ ApiIdle /\ SubIdle /\ RsIdle /\ KvInit

Next ==
  \/ InstancesChange
  \/ ConfigsChange
  \/ Cancel
  \/ MonCancelled
  \/ MonUpdateWorkers
  \/ MonRebuild
  \/ SchedTop
  \/ SchedRecv
  \/ SchedPotential
  \/ SchedSelect
  \/ SchedPublish
  \/ SchedRespond
  \/ LedgerAddRequest
  \/ SchedAddReturn
  \/ SchedSleepContinue
  \/ Schedule
  \/ \E c \in Requests : MarkPrefillCompleted(c)
  \/ \E c \in Requests : Free(c)

\* the scheduler, its membership monitor and its callers
Spec == Init /\ [][Next]_vars

SchedulerStep ==
  \/ SchedTop \/ SchedRecv \/ SchedRecvClosed \/ SchedPotential \/ SchedSelect
  \/ SchedPublish \/ SchedRespond \/ SchedAddReturn \/ SchedSleepContinue

MonitorStep ==
  MonCancelled \/ MonUpdateWorkers \/ MonRebuild

\* Next, and the KvScheduler may be dropped once no call borrows it
NextShutdown ==
  \/ Next
  \/ DropKvScheduler
  \/ SchedRecvClosed

\* the executor runs every task that can take a step: the scheduler loop, the
\* monitor and the ledger are weakly fair; the callers and the environment
\* are under no obligation
FairSpec ==
  /\ Init /\ [][NextShutdown]_vars
  /\ WF_vars(SchedulerStep)
  /\ WF_vars(MonitorStep)
  /\ WF_vars(LedgerAddRequest)

\* the softmax_sample driver: every logits map and temperature, one call
SoftmaxInit ==
  /\ sm_logits \in Maps(Keys, LogitValues)
  /\ sm_temperature \in Temperatures
  /\ sm_result = None
  /\ SelIdle
  /\ ApiIdle
  /\ SubIdle
  /\ RsIdle
  /\ KvIdle

SoftmaxSample ==
  /\ sm_result = None
  /\ \E perm \in Orders(Keys), rnd \in RngValues :
       sm_result' = Some(softmax_sample(sm_logits, sm_temperature, perm, rnd))
  /\ UNCHANGED <<sm_logits, sm_temperature, exceptSmVars>>

SoftmaxNext == SoftmaxSample

SpecSoftmax == SoftmaxInit /\ [][SoftmaxNext]_vars

\* inputs of the select_worker driver
SelConfigs == {NoConfig, "no_mode", "prefill_and_decode", "prefill"}
SelIslValues == {3, 8}
SelPrefillValues == {0, 8}
SelDecodeValues == {0, 2}
SelWeights == {1, 2}
SelThresholds == {0, 4}

\* the select_worker driver: a selector, a workers map and a request, one call
SelectInit ==
  /\ sel_selector \in [overlap_score_weight : SelWeights,
                       router_temperature : Temperatures,
                       use_isl_threshold : BOOLEAN,
                       isl_threshold : SelThresholds]
  /\ sel_workers \in Maps(Workers, SelConfigs)
  /\ sel_request \in [isl_tokens : SelIslValues,
                      overlaps : {[w \in {1} |-> 1]},
                      decode_blocks : Maps(Workers, SelDecodeValues),
                      prefill_tokens : Maps(Workers, SelPrefillValues),
                      weight_override : {None, Some(0)},
                      temperature_override : {None, Some(0)}]
  /\ sel_result = None
  /\ SmIdle
  /\ ApiIdle
  /\ SubIdle
  /\ RsIdle
  /\ KvIdle

SelectWorker ==
  /\ sel_result = None
  /\ \E perm \in Orders(Workers), rnd \in 0..Cardinality(Workers) :
       sel_result' = Some(select_worker(sel_selector, sel_workers, sel_request,
                                        BlockSize, perm, rnd))
  /\ UNCHANGED <<sel_selector, sel_workers, sel_request, exceptSelVars>>

SelectNext == SelectWorker

SpecSelect == SelectInit /\ [][SelectNext]_vars

\* the ledger calls a holder of the KvScheduler makes directly
MaxApiCalls == 4

ApiCallsMade ==
  SumOver(Requests, [id \in Requests |-> Len(opsLog[id])])

\* what KvScheduler::add_request gives its caller when the ledger's
\* add_request returned res: `let _ = ...;` and the unit value
add_request_Return(res) ==
  [tag |-> "Unit"]

\* KvScheduler::add_request(request_id, .., isl, overlap, worker_id)
AddRequest(id, w) ==
  /\ ApiCallsMade < MaxApiCalls
  /\ LET r == LedgerAdd(ledger, id, 6, 0, w)
     IN /\ ledger' = r.led
        /\ opsLog' = Logged(opsLog, id, "add", w, r.res)
        /\ addReturned' = [addReturned EXCEPT ![id] =
             [tag |-> "call", ledger |-> r.res, caller |-> add_request_Return(r.res)]]
  /\ UNCHANGED <<smVars, selVars, subVars, rsVars, envVars, monVars, slotsWorkers,
                 workers_with_configs, queue, selector, schedVars, callerVars,
                 enqOrder, deqOrder, decided, lastEvent>>

\* KvScheduler::free(request_id), by any holder of the KvScheduler
FreeDirect(id) ==
  /\ ApiCallsMade < MaxApiCalls
  /\ LET r == LedgerFree(ledger, id)
     IN /\ ledger' = r.led
        /\ opsLog' = Logged(opsLog, id, "free", 0, r.res)
  /\ UNCHANGED <<unitVars, envVars, monVars, slotsWorkers,
                 workers_with_configs, queue, selector, schedVars, callerVars,
                 enqOrder, deqOrder, decided, lastEvent>>

ApiNext ==
  \/ \E id \in Requests, w \in Workers : AddRequest(id, w)
  \/ \E id \in Requests : FreeDirect(id)

\* the ledger methods of KvScheduler called directly, the scheduler loop idle
SpecApi == Init /\ [][ApiNext]_vars

BestEffortNext ==
  \/ Cancel
  \/ SchedTop
  \/ SchedRecv
  \/ SchedPotential
  \/ SchedSelect
  \/ SchedPublish
  \/ SchedRespond
  \/ LedgerAddRequest
  \/ SchedAddReturn
  \/ Schedule
  \/ \E w \in Workers : AddRequest(1, w)

\* the scheduler loop on a fixed fleet with its callers, and a holder of the
\* KvScheduler that calls add_request for request id 1 directly, so that the
\* loop's own add_request can find the request id already in the ledger
SpecBestEffort == Init /\ [][BestEffortNext]_vars

\* the instances watch channel gets a new value, any number of times
InstancesWatch ==
  /\ \E ids \in InstanceSets :
       /\ ids # instances
       /\ instances' = ids
  /\ membershipChanged' = TRUE
  /\ monDirty' = TRUE
  /\ UNCHANGED <<unitVars, cancelled, runtime_configs, senderAlive,
                 monPc, new_instances, new_configs, sharedVars, schedVars,
                 callerVars, obsVars>>

\* the runtime-configs watch channel gets a new value, any number of times
ConfigsWatch ==
  /\ \E configs \in PublishedConfigs :
       /\ configs # runtime_configs
       /\ runtime_configs' = configs
  /\ membershipChanged' = TRUE
  /\ monDirty' = TRUE
  /\ UNCHANGED <<unitVars, cancelled, instances, senderAlive,
                 monPc, new_instances, new_configs, sharedVars, schedVars,
                 callerVars, obsVars>>

\* a schedule call with update_states = false: no reservation follows
QuerySchedule ==
  /\ Schedule
  /\ ~req'[issued'].update_states

MembershipNext ==
  \/ InstancesWatch
  \/ ConfigsWatch
  \/ Cancel
  \/ MonCancelled
  \/ MonUpdateWorkers
  \/ MonRebuild
  \/ SchedTop
  \/ SchedRecv
  \/ SchedPotential
  \/ SchedSelect
  \/ SchedPublish
  \/ SchedRespond
  \/ SchedSleepContinue
  \/ QuerySchedule

\* the membership monitor under watch channels that keep changing, next to
\* the scheduler loop and callers that only query
SpecMembership == Init /\ [][MembershipNext]_vars

(* -------------------- start_kv_router_background ---------------------- *)

\* keys of the metadata store, as sequences of characters; a uuid and the
\* root path stand for one character each
Slash == "/"
RoutersRoot == <<"kv_routers">>
\* component.path() of the subscriber, of another component, and of a
\* component whose path starts with the subscriber's
ComponentPath == <<"c">>
OtherPath == <<"d">>
LookalikePath == <<"c", "2">>
RouterKey(path, uuid) == RoutersRoot \o <<Slash>> \o path \o <<Slash, uuid>>
\* format!("{}/{}/", KV_ROUTERS_ROOT_PATH, component.path())
RouterPrefix == RoutersRoot \o <<Slash>> \o ComponentPath \o <<Slash>>

\* str::contains
Contains(str, sub) ==
  \E i \in 1..(Len(str) - Len(sub) + 1) : SubSeq(str, i, i + Len(sub) - 1) = sub
\* the prefix match of kv_get_prefix
StartsWith(str, pre) ==
  Len(str) >= Len(pre) /\ SubSeq(str, 1, Len(pre)) = pre
\* key.split('/').next_back(), for a key that ends in a uuid
LastSegment(key) == key[Len(key)]

\* the uuids of the routers and of their durable consumers
UUIDs == {"self", "p1", "p2"}
consumer_uuid == "self"

\* messages of the durable stream, and serde_json::from_slice on them
Json(e) == [tag |-> "json", event |-> e]
Garbage == [tag |-> "garbage"]
Decode(bytes) == IF bytes.tag = "json" THEN Some(bytes.event) ELSE None

\* inputs of the subscriber
Downloads == {None, Some(<<>>), Some(<<1, 2>>)}
StreamContents ==
  {<<>>, <<Json(3)>>, <<Json(3), Garbage, Json(4)>>, <<Json(4), Json(3)>>}
Directories ==
  {{RouterKey(OtherPath, "p2")} \cup {RouterKey(ComponentPath, u) : u \in S} :
     S \in SUBSET UUIDs}
WatchEvents ==
  {[kind |-> "Put", key |-> RouterKey(ComponentPath, "p1")]}
  \cup {[kind |-> "Delete", key |-> RouterKey(path, u)] :
          path \in {ComponentPath, OtherPath, LookalikePath}, u \in {"self", "p1"}}

SubInit ==
  /\ subPc = "start"
  /\ router_reset_states \in BOOLEAN
  /\ downloaded \in Downloads
  /\ replayed = 0
  /\ indexerOpen = TRUE
  /\ kv_events = <<>>
  /\ stream \in StreamContents
  /\ dequeued = <<>>
  /\ consumers = UUIDs
  /\ router_entries \in Directories
  /\ reaped = None
  /\ router_replicas \in {<<>>} \cup {<<e>> : e \in WatchEvents}
  /\ peerDeletes = {}
  /\ subCancelled = FALSE
  /\ ownShutdowns = 0
  /\ SnapIdle
  /\ SmIdle /\ SelIdle /\ ApiIdle /\ RsIdle /\ KvIdle

\* positions of the task before its loop, and in the loop: at the select!
\* and in the steps of a snapshot cycle
StartPcs == {"start", "replay", "cleanup"}
LoopPcs == {"loop", "stale", "purge", "dump", "upload", "unlock"}

\* the connections, then the reset or the download of the snapshot
SubStart ==
  /\ subPc = "start"
  /\ \E connected \in BOOLEAN :
       subPc' = IF ~connected THEN "failed"
                ELSE IF ~router_reset_states /\ downloaded # None THEN "replay"
                ELSE "cleanup"
  /\ UNCHANGED <<router_reset_states, downloaded, replayed, indexerOpen,
                 kv_events, stream, dequeued, consumers, router_entries, reaped,
                 router_replicas, peerDeletes, subCancelled, ownShutdowns,
                 snapVars, exceptSubVars>>

\* the snapshot events from last to first
ReplayEvent_Reversed(events, i) ==
  events[Len(events) + 1 - i]

\* the i-th event the loop `for event in events` sends
ReplayEvent(events, i) ==
  events[i]

\* one kv_events_tx.send(event).await of the replay; a failed send is logged
SubReplay ==
  /\ subPc = "replay"
  /\ LET events == Unwrap(downloaded)
     IN IF replayed < Len(events)
        THEN /\ replayed' = replayed + 1
             /\ kv_events' = IF indexerOpen
                             THEN Append(kv_events, ReplayEvent(events, replayed + 1))
                             ELSE kv_events
             /\ subPc' = subPc
        ELSE /\ subPc' = "cleanup"
             /\ UNCHANGED <<replayed, kv_events>>
  /\ UNCHANGED <<router_reset_states, downloaded, indexerOpen, stream, dequeued,
                 consumers, router_entries, reaped, router_replicas, peerDeletes,
                 subCancelled, ownShutdowns, snapVars, exceptSubVars>>

\* active_uuids: the last segment of every router entry under the prefix
ActiveUuids(entries) ==
  {LastSegment(k) : k \in {e \in entries : StartsWith(e, RouterPrefix)}}

\* the consumers the loop of cleanup_orphaned_consumers shuts down, without
\* the check for the task's own consumer
OrphanedConsumers_SelfIncluded(listed, active_uuids, self) ==
  {c \in listed : c \notin active_uuids}

\* the consumers the loop of cleanup_orphaned_consumers shuts down
OrphanedConsumers(listed, active_uuids, self) ==
  {c \in listed : c # self /\ c \notin active_uuids}

\* the etcd client, cleanup_orphaned_consumers, then the two watches; a
\* failed listing ends the cleanup, a failed shutdown is ignored
SubCleanup ==
  /\ subPc = "cleanup"
  /\ \E etcd_ok, consumers_ok, entries_ok, watches_ok \in BOOLEAN :
       IF ~etcd_ok
       THEN subPc' = "failed" /\ UNCHANGED <<consumers, reaped>>
       ELSE /\ subPc' = IF watches_ok THEN "loop" ELSE "failed"
            /\ IF consumers_ok /\ entries_ok
               THEN LET orphans == OrphanedConsumers(
                          consumers, ActiveUuids(router_entries), consumer_uuid)
                    IN /\ reaped' = Some(orphans)
                       /\ \E deleted \in SUBSET orphans :
                            consumers' = consumers \ deleted
               ELSE UNCHANGED <<consumers, reaped>>
  /\ UNCHANGED <<router_reset_states, downloaded, replayed, indexerOpen,
                 kv_events, stream, dequeued, router_entries, router_replicas,
                 peerDeletes, subCancelled, ownShutdowns, snapVars, exceptSubVars>>

\* the branches of the loop's select!, in the order they are written
Branches == <<"cancellation", "instance_event", "dequeue", "tick", "router_event">>

\* the (positions of the) branches whose future is ready when select! polls
ReadyBranches ==
  {b \in 1..Len(Branches) :
     \/ Branches[b] = "cancellation" /\ subCancelled
     \/ Branches[b] = "instance_event" /\ instance_event_rx # <<>>
     \/ Branches[b] = "dequeue" /\ dequeue_ready
     \/ Branches[b] = "tick" /\ tick_due
     \/ Branches[b] = "router_event" /\ router_replicas # <<>>}

\* a select! that takes the ready branch written last
SelectBranch_LastReady(ready) ==
  CHOOSE b \in ready : \A other \in ready : b >= other

\* `biased;`: the branches are polled in the order they are written, and the
\* first ready one is taken
SelectBranch(ready) ==
  CHOOSE b \in ready : \A other \in ready : b <= other

\* the loop is at its select! and the branch named is the one taken
Selected(branch) ==
  /\ subPc = "loop"
  /\ ReadyBranches # {}
  /\ Branches[SelectBranch(ReadyBranches)] = branch

\* the shutdowns of a loop whose only shutdown is the cancellation branch's
ShutdownsOnExit_InBranchOnly(path) ==
  IF path = "cancellation" THEN 1 ELSE 0

\* the calls of nats_queue.shutdown(None) on an exit path of the loop: the
\* one after the loop on every path, and before it the one of the
\* cancellation branch
ShutdownsOnExit(path) ==
  IF path = "cancellation" THEN 2 ELSE 1

\* select!, first branch: the token is cancelled; shutdown(None) in the
\* branch and again after the loop
SubCancelled ==
  /\ Selected("cancellation")
  /\ subPc' = "done"
  /\ ownShutdowns' = ownShutdowns + ShutdownsOnExit("cancellation")
  /\ UNCHANGED <<router_reset_states, downloaded, replayed, indexerOpen,
                 kv_events, stream, dequeued, consumers, router_entries, reaped,
                 router_replicas, peerDeletes, subCancelled, snapVars, exceptSubVars>>

\* the dequeue branch with a message that does not decode ending the loop
DequeueOutcome_DecodeFailureBreaks(bytes, open) ==
  IF Decode(bytes) = None THEN "break"
  ELSE IF open THEN "forward" ELSE "break"

\* what the dequeue branch does with the bytes of a message: `continue` when
\* they do not decode, forward the event when kv_events_tx.send succeeds,
\* `break` when it fails (open: the indexer still holds the receiver)
DequeueOutcome(bytes, open) ==
  IF Decode(bytes) = None THEN "skip"
  ELSE IF open THEN "forward" ELSE "break"

\* select!, the dequeue branch.  Ok(Some(bytes)): decode and forward; a
\* message that does not decode is skipped; a failed send ends the loop, and
\* shutdown(None) follows the loop.  Ok(None) (the timeout) and Err change
\* nothing.
SubDequeue ==
  /\ Selected("dequeue")
  /\ dequeue_ready' = FALSE
  /\ IF stream = <<>>
     THEN UNCHANGED <<stream, dequeued, kv_events, subPc, ownShutdowns>>
     ELSE /\ stream' = Tail(stream)
          /\ dequeued' = Append(dequeued, Head(stream))
          /\ LET outcome == DequeueOutcome(Head(stream), indexerOpen)
             IN /\ kv_events' = IF outcome = "forward"
                                 THEN Append(kv_events, Unwrap(Decode(Head(stream))))
                                 ELSE kv_events
                /\ subPc' = IF outcome = "break" THEN "done" ELSE subPc
                /\ ownShutdowns' = IF outcome = "break"
                                    THEN ownShutdowns + ShutdownsOnExit("send_failure")
                                    ELSE ownShutdowns
  /\ UNCHANGED <<router_reset_states, downloaded, replayed, indexerOpen,
                 consumers, router_entries, reaped, router_replicas,
                 peerDeletes, subCancelled, instance_event_rx, tick_due, ticks,
                 snapInputVars, storeVars, snapshot_lock, peerPc, message_count, cycle,
                 remove_worker_tx, exceptSubVars>>

\* the consumer the router-deletion branch decides to delete for a watch
\* event: none for an event that is not a Delete or whose key does not
\* contain component.path()
PeerConsumerToDelete(event) ==
  IF event.kind # "Delete" THEN None
  ELSE IF ~Contains(event.key, ComponentPath) THEN None
  ELSE Some(LastSegment(event.key))

\* select!, the router-deletion branch: under the cleanup lock, shutdown of
\* the consumer named by the key
SubRouterEvent ==
  /\ Selected("router_event")
  /\ router_replicas' = Tail(router_replicas)
  /\ LET event == Head(router_replicas)
         consumer_to_delete == PeerConsumerToDelete(event)
     IN \E locked, deleted \in BOOLEAN :
          IF consumer_to_delete # None /\ locked
          THEN /\ peerDeletes' = peerDeletes \cup {event.key}
               /\ consumers' = IF deleted
                               THEN consumers \ consumer_to_delete
                               ELSE consumers
          ELSE UNCHANGED <<peerDeletes, consumers>>
  /\ UNCHANGED <<subPc, router_reset_states, downloaded, replayed, indexerOpen,
                 kv_events, stream, dequeued, router_entries, reaped,
                 subCancelled, ownShutdowns, snapVars, exceptSubVars>>

\* the runtime cancels the token
SubCancel ==
  /\ ~subCancelled
  /\ subPc \in StartPcs \cup LoopPcs
  /\ subCancelled' = TRUE
  /\ UNCHANGED <<subPc, router_reset_states, downloaded, replayed, indexerOpen,
                 kv_events, stream, dequeued, consumers, router_entries, reaped,
                 router_replicas, peerDeletes, ownShutdowns, snapVars, exceptSubVars>>

\* the indexer drops the receiver of kv_events_tx
IndexerClosed ==
  /\ indexerOpen
  /\ subPc \in StartPcs \cup LoopPcs
  /\ indexerOpen' = FALSE
  /\ UNCHANGED <<subPc, router_reset_states, downloaded, replayed, kv_events,
                 stream, dequeued, consumers, router_entries, reaped,
                 router_replicas, peerDeletes, subCancelled, ownShutdowns,
                 snapVars, exceptSubVars>>

(* ------------- the instance-event and the tick branches ---------------- *)

\* keys of the generate endpoint's instances, as sequences of characters:
\* the endpoint's root stands for one character
Colon == ":"
InstanceKey(id_str) == <<"generate", Colon>> \o id_str

\* key.split(':').next_back(): the characters after the last colon
RECURSIVE AfterLastColon(_)
AfterLastColon(key) ==
  IF key = <<>> THEN <<>>
  ELSE IF \E i \in 1..Len(key) : key[i] = Colon
       THEN AfterLastColon(Tail(key))
       ELSE key

\* char::to_digit(16), on the characters the keys are made of
HexDigit(ch) ==
  CASE ch = "0" -> Some(0)
    [] ch = "1" -> Some(1)
    [] ch = "2" -> Some(2)
    [] ch = "a" -> Some(10)
    [] OTHER -> None

\* the digits of from_str_radix(.., 16): None for no digit at all and for a
\* character that is not a hex digit
RECURSIVE FromDigits16(_)
FromDigits16(str) ==
  IF str = <<>> THEN None
  ELSE LET last == HexDigit(str[Len(str)])
           front == SubSeq(str, 1, Len(str) - 1)
       IN IF last = None THEN None
          ELSE IF front = <<>> THEN last
          ELSE IF FromDigits16(front) = None THEN None
          ELSE Some(16 * Unwrap(FromDigits16(front)) + Unwrap(last))

\* i64::from_str_radix(str, 16): an optional sign, then the digits
FromStrRadix16(str) ==
  IF str # <<>> /\ str[1] = "-"
  THEN LET magnitude == FromDigits16(Tail(str))
       IN IF magnitude = None THEN None ELSE Some(0 - Unwrap(magnitude))
  ELSE IF str # <<>> /\ str[1] = "+" THEN FromDigits16(Tail(str))
  ELSE FromDigits16(str)

\* the worker removed for a watch event of any kind
WorkerToRemove_AnyKind(event) ==
  FromStrRadix16(AfterLastColon(event.key))

\* the worker the instance-event branch removes for a watch event, if any
WorkerToRemove(event) ==
  IF event.kind # "Delete" THEN None
  ELSE FromStrRadix16(AfterLastColon(event.key))

\* inputs of the loop: watch events of the generate endpoint
InstanceEventSeqs ==
  {<<>>,
   <<[kind |-> "Delete", key |-> InstanceKey(<<"1", "0">>)],
     [kind |-> "Delete", key |-> InstanceKey(<<"-", "a">>)]>>,
   <<[kind |-> "Put", key |-> InstanceKey(<<"2">>)],
     [kind |-> "Delete", key |-> InstanceKey(<<"a", "z">>)]>>}

\* select!, the instance-event branch: a Delete whose key ends in a hex
\* worker id sends that id on remove_worker_tx; a failed send is logged
SubInstanceEvent ==
  /\ Selected("instance_event")
  /\ instance_event_rx' = Tail(instance_event_rx)
  /\ LET worker_id == WorkerToRemove(Head(instance_event_rx))
     IN remove_worker_tx' = IF worker_id # None /\ indexerOpen
                            THEN Append(remove_worker_tx, Unwrap(worker_id))
                            ELSE remove_worker_tx
  /\ UNCHANGED <<subPc, router_reset_states, downloaded, replayed, indexerOpen,
                 kv_events, stream, dequeued, consumers, router_entries, reaped,
                 router_replicas, peerDeletes, subCancelled, ownShutdowns,
                 dequeue_ready, tick_due, ticks, snapInputVars, storeVars, snapshot_lock,
                 peerPc, message_count, cycle, exceptSubVars>>

\* the ticks of check_interval that may come due
MaxTicks == 2
\* router_snapshot_threshold, when it is Some
router_snapshot_threshold == 2
\* results of get_stream_messages: None for an error, or Some(count)
MessageCounts == {None, Some(2), Some(3)}
\* the routers of the component that contend for the snapshot lock
Self == "self"
Peer == "peer"

\* a lock that is granted to every caller
LockGranted_ToAnyone(lock, who) ==
  TRUE

\* etcd's lock on one name: granted to a caller when no other caller holds it
LockGranted(lock, who) ==
  lock = None \/ lock = Some(who)

\* the tick goes on to the lock whatever the count
AboveThreshold_Always(count, threshold) ==
  TRUE

\* the guard `if message_count <= threshold { continue; }`
AboveThreshold(count, threshold) ==
  ~(count <= threshold)

\* select!, the tick branch up to the lock: without snapshot resources, on a
\* failed count, on a count at or below the threshold and without the lock
\* the loop continues; with the lock the cycle starts
SubTick ==
  /\ Selected("tick")
  /\ tick_due' = FALSE
  /\ IF ~snapshot_resources
     THEN UNCHANGED <<subPc, message_count, snapshot_lock, cycle>>
     ELSE \E count \in MessageCounts, lock_ok \in BOOLEAN :
            /\ message_count' = count
            /\ IF /\ count # None
                  /\ AboveThreshold(Unwrap(count), router_snapshot_threshold)
                  /\ lock_ok
                  /\ LockGranted(snapshot_lock, Self)
               THEN /\ snapshot_lock' = Some(Self)
                    /\ cycle' = <<"lock">>
                    /\ subPc' = "stale"
               ELSE UNCHANGED <<subPc, snapshot_lock, cycle>>
  /\ UNCHANGED <<router_reset_states, downloaded, replayed, indexerOpen,
                 kv_events, stream, dequeued, consumers, router_entries, reaped,
                 router_replicas, peerDeletes, subCancelled, ownShutdowns,
                 instance_event_rx, dequeue_ready, ticks, snapInputVars, storeVars, peerPc,
                 remove_worker_tx, exceptSubVars>>

\* every worker id of the indexer, stale or not
StaleWorkers_All(indexer_worker_ids, current_worker_ids) ==
  indexer_worker_ids

\* the workers purge_then_snapshot removes, in the order of the indexer's
\* answer: those the indexer knows that are not among the current instances
StaleWorkers(indexer_worker_ids, current_worker_ids) ==
  SelectSeq(indexer_worker_ids, LAMBDA worker_id : worker_id \notin current_worker_ids)

\* the get_workers request reaches the indexer and its answer comes back
WorkersObtained ==
  indexerOpen /\ indexer_workers # None

\* purge_then_snapshot, the stale-worker clean-up: a failed get_workers
\* request or reply is logged and the clean-up is skipped
SubStaleWorkers ==
  /\ subPc = "stale"
  /\ remove_worker_tx' =
       IF WorkersObtained
       THEN remove_worker_tx \o StaleWorkers(Unwrap(indexer_workers), sub_instances)
       ELSE remove_worker_tx
  /\ cycle' = Append(cycle, "stale")
  /\ subPc' = "purge"
  /\ UNCHANGED <<router_reset_states, downloaded, replayed, indexerOpen,
                 kv_events, stream, dequeued, consumers, router_entries, reaped,
                 router_replicas, peerDeletes, subCancelled, ownShutdowns,
                 instance_event_rx, dequeue_ready, tick_due, ticks,
                 snapInputVars, storeVars, snapshot_lock, peerPc, message_count,
                 exceptSubVars>>

\* a purge_then_snapshot that goes on to the next step after a failure
AfterStep_GoesOn(ok, next) ==
  next

\* where purge_then_snapshot goes after a step: `?` returns at a failure,
\* and the caller goes on to the unlock
AfterStep(ok, next) ==
  IF ok THEN next ELSE "unlock"

\* one step of purge_then_snapshot after the stale-worker clean-up, with
\* its result; the cycle records the step, and for the upload, whose failure
\* does not show in where the cycle goes next, the failure
SnapshotStep(at, step, next, ok) ==
  /\ subPc = at
  /\ subPc' = AfterStep(ok, next)
  /\ cycle' = Append(cycle, IF step = "upload" /\ ~ok THEN "upload_err" ELSE step)
  /\ UNCHANGED <<router_reset_states, downloaded, replayed, indexerOpen,
                 kv_events, stream, dequeued, consumers, router_entries, reaped,
                 router_replicas, peerDeletes, subCancelled, ownShutdowns,
                 instance_event_rx, dequeue_ready, tick_due, ticks,
                 snapInputVars, snapshot_lock, peerPc, message_count,
                 remove_worker_tx, exceptSubVars>>

\* the purge mark after purge_acknowledged: at the acknowledged messages on
\* success, where it was on a failure
PurgeAcknowledged(mark, acknowledged, ok) ==
  IF ok THEN acknowledged ELSE mark

\* nats_queue.purge_acknowledged().await?
SubPurge ==
  \E ok \in BOOLEAN :
    /\ SnapshotStep("purge", "purge", "dump", ok)
    /\ purged' = PurgeAcknowledged(purged, Len(dequeued), ok)
    /\ UNCHANGED <<dump_events, snapshot_object>>

\* the DumpRequest to the indexer and its reply: the events the indexer holds
SubDump ==
  \E ok \in BOOLEAN :
    /\ SnapshotStep("dump", "dump", "upload", ok /\ indexerOpen)
    /\ dump_events' = IF ok /\ indexerOpen THEN Some(kv_events) ELSE None
    /\ UNCHANGED <<purged, snapshot_object>>

\* the object in the store after object_store_upload_data: the events on
\* success, the object that was there on a failure
Stored(object, events, ok) ==
  IF ok THEN Some(events) ELSE object

\* object_store_upload_data(&events, &url).await; Ok(()) follows
SubUpload ==
  \E ok \in BOOLEAN :
    /\ SnapshotStep("upload", "upload", "unlock", ok)
    /\ snapshot_object' = Stored(snapshot_object, Unwrap(dump_events), ok)
    /\ dump_events' = None
    /\ purged' = purged

\* the lock after an unlock that is never sent
Unlocked_Kept(lock, ok) ==
  lock

\* the lock after etcd_client.unlock(key) returned: released on success,
\* as it was on a failure (which is logged)
Unlocked(lock, ok) ==
  IF ok THEN None ELSE lock

\* resources.unlock(&etcd_client, lock_response).await, after the match that
\* logs the result of purge_then_snapshot; the cycle records "unlock" for a
\* release that succeeded and "unlock_err" for one that failed
SubUnlock ==
  /\ subPc = "unlock"
  /\ \E ok \in BOOLEAN :
       /\ snapshot_lock' = Unlocked(snapshot_lock, ok)
       /\ cycle' = Append(cycle, IF ok THEN "unlock" ELSE "unlock_err")
  /\ subPc' = "loop"
  /\ UNCHANGED <<router_reset_states, downloaded, replayed, indexerOpen,
                 kv_events, stream, dequeued, consumers, router_entries, reaped,
                 router_replicas, peerDeletes, subCancelled, ownShutdowns,
                 instance_event_rx, dequeue_ready, tick_due, ticks,
                 snapInputVars, storeVars, peerPc, message_count, remove_worker_tx,
                 exceptSubVars>>

\* a peer router's tick, up to the lock: it enters its cycle with the lock
PeerLock ==
  /\ peerPc = "idle"
  /\ LockGranted(snapshot_lock, Peer)
  /\ snapshot_lock' = Some(Peer)
  /\ peerPc' = "section"
  /\ UNCHANGED <<subPc, router_reset_states, downloaded, replayed, indexerOpen,
                 kv_events, stream, dequeued, consumers, router_entries, reaped,
                 router_replicas, peerDeletes, subCancelled, ownShutdowns,
                 instance_event_rx, dequeue_ready, tick_due, ticks,
                 snapInputVars, storeVars, message_count, cycle, remove_worker_tx,
                 exceptSubVars>>

\* the peer router ends its cycle and unlocks
PeerUnlock ==
  /\ peerPc = "section"
  /\ \E ok \in BOOLEAN : snapshot_lock' = Unlocked(snapshot_lock, ok)
  /\ peerPc' = "idle"
  /\ UNCHANGED <<subPc, router_reset_states, downloaded, replayed, indexerOpen,
                 kv_events, stream, dequeued, consumers, router_entries, reaped,
                 router_replicas, peerDeletes, subCancelled, ownShutdowns,
                 instance_event_rx, dequeue_ready, tick_due, ticks,
                 snapInputVars, storeVars, message_count, cycle, remove_worker_tx,
                 exceptSubVars>>

\* a tick of check_interval comes due
TickElapses ==
  /\ subPc \in LoopPcs /\ ~tick_due
  /\ ticks < MaxTicks
  /\ tick_due' = TRUE
  /\ ticks' = ticks + 1
  /\ UNCHANGED <<subPc, router_reset_states, downloaded, replayed, indexerOpen,
                 kv_events, stream, dequeued, consumers, router_entries, reaped,
                 router_replicas, peerDeletes, subCancelled, ownShutdowns,
                 instance_event_rx, dequeue_ready, snapInputVars, storeVars, snapshot_lock,
                 peerPc, message_count, cycle, remove_worker_tx, exceptSubVars>>

\* the fetch behind dequeue_task completes: with the next message of the
\* stream, or without one (the timeout, an error)
FetchCompletes ==
  /\ subPc = "loop" /\ ~dequeue_ready
  /\ dequeue_ready' = TRUE
  /\ UNCHANGED <<subPc, router_reset_states, downloaded, replayed, indexerOpen,
                 kv_events, stream, dequeued, consumers, router_entries, reaped,
                 router_replicas, peerDeletes, subCancelled, ownShutdowns,
                 instance_event_rx, tick_due, ticks, snapInputVars, storeVars,
                 snapshot_lock, peerPc, message_count, cycle, remove_worker_tx,
                 exceptSubVars>>

SubNext ==
  \/ SubStart
  \/ SubReplay
  \/ SubCleanup
  \/ SubCancelled
  \/ SubDequeue
  \/ SubRouterEvent
  \/ SubCancel
  \/ IndexerClosed
  \/ FetchCompletes

\* the subscriber task from its start, with its stream, snapshot, directory
\* and watch events
SpecSubscriber == SubInit /\ [][SubNext]_vars

\* inputs of the loop
LoopStreams == {<<>>, <<Garbage, Json(3), Json(4)>>}
LoopWatchEvents ==
  {<<>>, <<[kind |-> "Delete", key |-> RouterKey(ComponentPath, "p1")]>>}
InstanceIdSets == {{1}}
IndexerWorkerReplies == {None, Some(<<2, 1, 3>>)}

LoopInit ==
  /\ subPc = "start"
  /\ router_reset_states = TRUE
  /\ downloaded = None
  /\ replayed = 0
  /\ indexerOpen = TRUE
  /\ kv_events = <<>>
  /\ stream \in LoopStreams
  /\ dequeued = <<>>
  /\ consumers = UUIDs
  /\ router_entries = {RouterKey(ComponentPath, u) : u \in UUIDs}
  /\ reaped = None
  /\ router_replicas \in LoopWatchEvents
  /\ peerDeletes = {}
  /\ subCancelled = FALSE
  /\ ownShutdowns = 0
  /\ instance_event_rx \in InstanceEventSeqs
  /\ dequeue_ready = FALSE
  /\ tick_due = FALSE
  /\ ticks = 0
  /\ snapshot_resources \in BOOLEAN
  /\ sub_instances \in InstanceIdSets
  /\ indexer_workers \in IndexerWorkerReplies
  /\ snapshot_lock = None
  /\ peerPc = "idle"
  /\ message_count = None
  /\ cycle = <<>>
  /\ remove_worker_tx = <<>>
  /\ purged = 0
  /\ dump_events = None
  /\ snapshot_object = None
  /\ SmIdle /\ SelIdle /\ ApiIdle /\ RsIdle /\ KvIdle

LoopNext ==
  \/ SubStart
  \/ SubCleanup
  \/ SubCancelled
  \/ SubInstanceEvent
  \/ SubDequeue
  \/ SubTick
  \/ SubStaleWorkers
  \/ SubPurge
  \/ SubDump
  \/ SubUpload
  \/ SubUnlock
  \/ SubRouterEvent
  \/ SubCancel
  \/ IndexerClosed
  \/ FetchCompletes
  \/ TickElapses
  \/ PeerLock
  \/ PeerUnlock

\* the subscriber's loop with all five branches of its select!, the snapshot
\* cycle, and a peer router contending for the snapshot lock
SpecLoop == LoopInit /\ [][LoopNext]_vars

\* the scheduler loop with callers that may drop the schedule future while
\* they wait for the reply
AbandonNext ==
  \/ Cancel
  \/ SchedTop
  \/ SchedRecv
  \/ SchedPotential
  \/ SchedSelect
  \/ SchedPublish
  \/ SchedRespond
  \/ LedgerAddRequest
  \/ SchedAddReturn
  \/ Schedule
  \/ \E c \in Requests : CallerAbandon(c)

SpecAbandon == Init /\ [][AbandonNext]_vars

(* ------------- AddressedPushRouter::generate: the response ------------ *)

\* the response channel delivers at most MaxMessages messages before it closes
MaxMessages == 3

\* bytes on the response channel: a NetworkStreamWrapper or bytes that do not
\* parse as one; from_slice on them
Payloads == {"a", "b"}
Wrapper(complete_final, data) ==
  [tag |-> "wrapper", complete_final |-> complete_final, data |-> data]
NotJson == [tag |-> "garbage"]
ResponseBytes ==
  {Wrapper(f, d) : f \in BOOLEAN, d \in {None} \cup {Some(x) : x \in Payloads}}
  \cup {NotJson}
from_slice(res_bytes) ==
  IF res_bytes.tag = "wrapper" THEN Some(res_bytes) ELSE None

\* items of the response sequence
Data(d) == [tag |-> "data", data |-> d]
ErrorItem(msg) == [tag |-> "error", msg |-> msg]
AfterEndError == ErrorItem("Response received after generation ended")
EmptyResponseError == ErrorItem("Empty response received")
DecodeError == ErrorItem("deserialize")
StreamEndError == ErrorItem("STREAM_ERR_MSG")

\* the closure with the data of the final message dropped
filter_map_FinalDataDropped(flag, res, stopped) ==
  IF res # None
  THEN IF flag THEN [flag |-> flag, out |-> Some(AfterEndError)]
       ELSE LET parsed == from_slice(Unwrap(res))
            IN IF parsed = None THEN [flag |-> flag, out |-> Some(DecodeError)]
               ELSE LET item == Unwrap(parsed)
                    IN [flag |-> item.complete_final,
                        out |-> IF item.complete_final THEN None
                                ELSE IF item.data # None
                                THEN Some(Data(Unwrap(item.data)))
                                ELSE Some(EmptyResponseError)]
  ELSE IF flag THEN [flag |-> flag, out |-> None]
  ELSE IF stopped THEN [flag |-> flag, out |-> None]
  ELSE [flag |-> flag, out |-> Some(StreamEndError)]

\* the closure without the is_stopped() test at the close
filter_map_StopIgnored(flag, res, stopped) ==
  IF res # None
  THEN IF flag THEN [flag |-> flag, out |-> Some(AfterEndError)]
       ELSE LET parsed == from_slice(Unwrap(res))
            IN IF parsed = None THEN [flag |-> flag, out |-> Some(DecodeError)]
               ELSE LET item == Unwrap(parsed)
                    IN [flag |-> item.complete_final,
                        out |-> IF item.data # None
                                THEN Some(Data(Unwrap(item.data)))
                                ELSE IF item.complete_final THEN None
                                ELSE Some(EmptyResponseError)]
  ELSE IF flag THEN [flag |-> flag, out |-> None]
  ELSE [flag |-> flag, out |-> Some(StreamEndError)]

\* the closure with the bytes parsed before the flag is looked at
filter_map_ParseFirst(flag, res, stopped) ==
  IF res # None
  THEN LET parsed == from_slice(Unwrap(res))
       IN IF parsed = None THEN [flag |-> flag, out |-> Some(DecodeError)]
          ELSE IF flag THEN [flag |-> flag, out |-> Some(AfterEndError)]
          ELSE LET item == Unwrap(parsed)
               IN [flag |-> item.complete_final,
                   out |-> IF item.data # None
                           THEN Some(Data(Unwrap(item.data)))
                           ELSE IF item.complete_final THEN None
                           ELSE Some(EmptyResponseError)]
  ELSE IF flag THEN [flag |-> flag, out |-> None]
  ELSE IF stopped THEN [flag |-> flag, out |-> None]
  ELSE [flag |-> flag, out |-> Some(StreamEndError)]

\* the closure with a message without data skipped in silence
filter_map_EmptySkipped(flag, res, stopped) ==
  IF res # None
  THEN IF flag THEN [flag |-> flag, out |-> Some(AfterEndError)]
       ELSE LET parsed == from_slice(Unwrap(res))
            IN IF parsed = None THEN [flag |-> flag, out |-> Some(DecodeError)]
               ELSE LET item == Unwrap(parsed)
                    IN [flag |-> item.complete_final,
                        out |-> IF item.data # None
                                THEN Some(Data(Unwrap(item.data)))
                                ELSE None]
  ELSE IF flag THEN [flag |-> flag, out |-> None]
  ELSE IF stopped THEN [flag |-> flag, out |-> None]
  ELSE [flag |-> flag, out |-> Some(StreamEndError)]

\* the closure given to filter_map: from the flag, what StreamNotifyClose
\* yields (Some(bytes), or None at the close) and is_stopped(), the new flag
\* and the item to emit, if any
filter_map(flag, res, stopped) ==
  IF res # None
  THEN IF flag THEN [flag |-> flag, out |-> Some(AfterEndError)]
       ELSE LET parsed == from_slice(Unwrap(res))
            IN IF parsed = None THEN [flag |-> flag, out |-> Some(DecodeError)]
               ELSE LET item == Unwrap(parsed)
                    IN [flag |-> item.complete_final,
                        out |-> IF item.data # None
                                THEN Some(Data(Unwrap(item.data)))
                                ELSE IF item.complete_final THEN None
                                ELSE Some(EmptyResponseError)]
  ELSE IF flag THEN [flag |-> flag, out |-> None]
  ELSE IF stopped THEN [flag |-> flag, out |-> None]
  ELSE [flag |-> flag, out |-> Some(StreamEndError)]

\* all the sequences of at most n elements of S
RECURSIVE SeqsUpTo(_, _)
SeqsUpTo(S, n) ==
  IF n = 0 THEN {<<>>}
  ELSE LET shorter == SeqsUpTo(S, n - 1)
       IN shorter \cup {Append(q, x) : q \in shorter, x \in S}

\* what a call of generate does on the request plane and the data plane
\* when every step succeeds
ProtocolOrder == <<"register", "send", "ack", "await_handshake", "handshake_ok">>

\* the state after generate returned the response sequence
RsInit ==
  /\ incoming \in SeqsUpTo(ResponseBytes, MaxMessages)
  /\ received = <<>>
  /\ is_complete_final = FALSE
  /\ emitted = <<>>
  /\ streamEnded = FALSE
  /\ is_stopped = FALSE
  /\ genPc = "done"
  /\ genLog = ProtocolOrder
  /\ genResult = Some("Ok")
  /\ SmIdle /\ SelIdle /\ ApiIdle /\ SubIdle /\ KvIdle

\* the next message of the channel goes through the closure
RsMessage ==
  /\ ~streamEnded
  /\ incoming # <<>>
  /\ LET r == filter_map(is_complete_final, Some(Head(incoming)), is_stopped)
     IN /\ is_complete_final' = r.flag
        /\ emitted' = IF r.out = None THEN emitted
                      ELSE Append(emitted, Unwrap(r.out))
  /\ incoming' = Tail(incoming)
  /\ received' = Append(received, Head(incoming))
  /\ UNCHANGED <<streamEnded, is_stopped, genVars, exceptRsVars>>

\* the channel closes: StreamNotifyClose yields None once, the closure sees
\* it, and the sequence ends
RsClose ==
  /\ ~streamEnded
  /\ incoming = <<>>
  /\ LET r == filter_map(is_complete_final, None, is_stopped)
     IN /\ is_complete_final' = r.flag
        /\ emitted' = IF r.out = None THEN emitted
                      ELSE Append(emitted, Unwrap(r.out))
  /\ streamEnded' = TRUE
  /\ UNCHANGED <<incoming, received, is_stopped, genVars, exceptRsVars>>

\* the caller calls stop_generating()
RsStop ==
  /\ ~streamEnded /\ ~is_stopped
  /\ is_stopped' = TRUE
  /\ UNCHANGED <<incoming, received, is_complete_final, emitted, streamEnded,
                 genVars, exceptRsVars>>

RsNext == RsMessage \/ RsClose \/ RsStop

\* the response sequence over every channel content of at most MaxMessages
SpecResponse == RsInit /\ [][RsNext]_vars

(* --------------- AddressedPushRouter::generate: the call --------------- *)

\* a step of the call ends it with a result
GenReturn(res) ==
  /\ genPc' = "done"
  /\ genResult' = Some(res)

\* resp_transport.register(options).await, then the match on the pending
\* connections: anything but a response stream alone panics
GenRegister ==
  /\ genPc = "register"
  /\ genLog' = Append(genLog, "register")
  /\ \E recv_stream_only \in BOOLEAN :
       IF recv_stream_only
       THEN genPc' = "encode" /\ genResult' = genResult
       ELSE GenReturn("Panic")
  /\ UNCHANGED <<incoming, received, is_complete_final, emitted, streamEnded,
                 is_stopped, exceptRsVars>>

\* the control message and the request are serialised and encoded as a
\* two-part message; `?` returns the error of a step that fails
GenEncode ==
  /\ genPc = "encode"
  /\ \E ok \in BOOLEAN :
       IF ok
       THEN genPc' = "send" /\ genResult' = genResult
       ELSE GenReturn("EncodeError")
  /\ UNCHANGED <<genLog, incoming, received, is_complete_final, emitted,
                 streamEnded, is_stopped, exceptRsVars>>

\* req_transport.request_with_headers(..): the two-part message goes out
GenSend ==
  /\ genPc = "send"
  /\ genLog' = Append(genLog, "send")
  /\ genPc' = "ack"
  /\ UNCHANGED <<genResult, incoming, received, is_complete_final, emitted,
                 streamEnded, is_stopped, exceptRsVars>>

\* a call that awaits the handshake whatever the request came to
AfterRequest_AwaitsAnyway(ok) ==
  "handshake"

\* `.await?` on the request: on to the handshake with the response, out of
\* the call with the error otherwise
AfterRequest(ok) ==
  IF ok THEN "handshake" ELSE "done"

\* the request-plane response (used as an ack only) or the request's error
GenAck ==
  /\ genPc = "ack"
  /\ \E ok \in BOOLEAN :
       /\ genLog' = Append(genLog, IF ok THEN "ack" ELSE "request_err")
       /\ genPc' = AfterRequest(ok)
       /\ genResult' = IF ok THEN genResult ELSE Some("RequestError")
  /\ UNCHANGED <<incoming, received, is_complete_final, emitted, streamEnded,
                 is_stopped, exceptRsVars>>

\* the call starts to await response_stream_provider
GenAwaitHandshake ==
  /\ genPc = "handshake"
  /\ genLog' = Append(genLog, "await_handshake")
  /\ genPc' = "handshaking"
  /\ UNCHANGED <<genResult, incoming, received, is_complete_final, emitted,
                 streamEnded, is_stopped, exceptRsVars>>

\* what the provider resolves to
HandshakeOutcomes == {"handshake_ok", "handshake_dropped", "handshake_refused"}

\* the two map_err on the provider's result, then `?`
HandshakeResult(outcome) ==
  CASE outcome = "handshake_dropped" -> "DetachedStreamReceiver"
    [] outcome = "handshake_refused" -> "ConnectionFailed"
    [] OTHER -> "Ok"

\* the provider resolves: the response sequence is returned on a handshake,
\* the call fails otherwise
GenHandshake ==
  /\ genPc = "handshaking"
  /\ \E outcome \in HandshakeOutcomes :
       /\ genLog' = Append(genLog, outcome)
       /\ GenReturn(HandshakeResult(outcome))
       /\ streamEnded' = (HandshakeResult(outcome) # "Ok")
  /\ UNCHANGED <<incoming, received, is_complete_final, emitted, is_stopped,
                 exceptRsVars>>

\* a call of generate about to register, and what the response channel will
\* deliver if the call succeeds
GenInit ==
  /\ incoming \in SeqsUpTo(ResponseBytes, MaxMessages)
  /\ received = <<>>
  /\ is_complete_final = FALSE
  /\ emitted = <<>>
  /\ streamEnded = TRUE
  /\ is_stopped = FALSE
  /\ genPc = "register"
  /\ genLog = <<>>
  /\ genResult = None
  /\ SmIdle /\ SelIdle /\ ApiIdle /\ SubIdle /\ KvIdle

GenNext ==
  \/ GenRegister
  \/ GenEncode
  \/ GenSend
  \/ GenAck
  \/ GenAwaitHandshake
  \/ GenHandshake
  \/ RsMessage
  \/ RsClose
  \/ RsStop

\* one call of generate and the response sequence it returns
SpecGenerate == GenInit /\ [][GenNext]_vars

(* ------------------------------- claims ------------------------------- *)

IsPrefix(a, b) ==
  Len(a) <= Len(b) /\ \A i \in 1..Len(a) : a[i] = b[i]

\* the number of add_request calls the ledger saw for request id c
AddCount(c) ==
  Cardinality({i \in 1..Len(opsLog[c]) : opsLog[c][i].op = "add"})

\* the loop has dequeued request c and has moved on from it
Processed(c) ==
  /\ \E i \in 1..Len(deqOrder) : deqOrder[i] = c
  /\ (schedPc \in {"top", "recv", "done"} \/ cur.c # c)

\* C1: the requests leave the channel in the order they entered it, the
\* requests still queued follow in that order, and a request dequeued earlier
\* is decided before one dequeued later.
FifoOrder ==
  /\ IsPrefix(deqOrder \o queue, enqOrder)
  /\ \A i, j \in 1..Len(deqOrder) :
       (i < j /\ decided[deqOrder[j]] # "none") => decided[deqOrder[i]] # "none"

\* C1 witness: two requests were queued, dequeued and decided.
FifoWitness ==
  /\ Len(deqOrder) = 2
  /\ decided[deqOrder[1]] # "none" /\ decided[deqOrder[2]] # "none"

\* C2: for every request id, the ledger sees add_request before any
\* mark_prefill_completed and before free of that id.
AddBeforeMarkAndFree ==
  \A c \in Requests : \A i \in 1..Len(opsLog[c]) :
    opsLog[c][i].op \in {"mark_prefill_completed", "free"} =>
      \E j \in 1..(i - 1) : opsLog[c][j].op = "add"

\* C3: a caller observes SubscriberShutdown only if the scheduler is shutting
\* down: the token is cancelled or the scheduler task has ended.
ShutdownErrorOnlyAtShutdown ==
  \A c \in Requests :
    result[c] = Failed("SubscriberShutdown") => (cancelled \/ ReceiverDropped)

\* C4: every schedule call accepted into the queue eventually returns a
\* WorkerId, unless the shutdown signal is raised.
EveryCallRouted ==
  \A c \in Requests :
    (cpc[c] = "waiting") ~> (result[c].tag = "Ok" \/ cancelled)

\* C5: the published KVHitRateEvent has isl_blocks = ceil(isl_tokens /
\* block_size), overlap_blocks = the overlap score of its worker (0 without a
\* score), and worker_id = the WorkerId schedule returned for that request.
EventMatchesReply ==
  lastEvent.tag = "event" =>
    LET c == lastEvent.c
        e == lastEvent.event
    IN /\ e.isl_blocks * BlockSize >= req[c].isl_tokens
       /\ (e.isl_blocks - 1) * BlockSize < req[c].isl_tokens
       /\ e.overlap_blocks =
            (IF e.worker_id \in DOMAIN req[c].overlaps
             THEN req[c].overlaps[e.worker_id] ELSE 0)
       /\ (result[c].tag = "Ok" => result[c].worker_id = e.worker_id)

\* C5 witness: an event was published for a request and the caller of that
\* request was given a worker.
EventWitness ==
  /\ lastEvent.tag = "event"
  /\ result[lastEvent.c].tag = "Ok"

\* C6: the ledger sees at most one add_request per schedule call; it sees one
\* only for a decided request with update_states and a request id, on the
\* worker selected for (and returned to) that call; and it has seen one once
\* the loop is through with such a request.
OneAddPerScheduledRequest ==
  \A c \in Requests :
    /\ AddCount(c) <= 1
    /\ AddCount(c) = 1 =>
         /\ req[c].update_states /\ req[c].maybe_request_id # None
         /\ decided[c] = "Ok"
         /\ \A i \in 1..Len(opsLog[c]) :
              (opsLog[c][i].op = "add" /\ result[c].tag = "Ok")
                => opsLog[c][i].worker = result[c].worker_id
    /\ (Processed(c) /\ result[c].tag = "Ok" /\ req[c].update_states
          /\ req[c].maybe_request_id # None) => AddCount(c) = 1

\* C6 witness: a routed request with its add_request seen, and a routed
\* request with update_states = false that the loop is through with.
OneAddWitness ==
  /\ \E c \in Requests : AddCount(c) = 1 /\ result[c].tag = "Ok"
  /\ \E c \in Requests :
       Processed(c) /\ result[c].tag = "Ok" /\ ~req[c].update_states

\* C7: while the loop decides a request, no add_request of an earlier decision
\* is outstanding: every earlier decision that reserves has been committed to
\* the ledger before the potential loads of this one are computed.
DecisionsSerialised ==
  schedPc \in {"potential", "select", "publish", "respond", "sleep"} =>
    /\ addInFlight = NoAdd
    /\ \A i \in 1..(Len(deqOrder) - 1) :
         LET d == deqOrder[i]
         IN (decided[d] = "Ok" /\ req[d].update_states
              /\ req[d].maybe_request_id # None) => AddCount(d) = 1

\* C7 witness: the loop is about to compute the potential loads of a second
\* request and the first one's reservation is in the ledger's log.
SerialisedWitness ==
  /\ schedPc = "potential"
  /\ Len(deqOrder) = 2
  /\ AddCount(deqOrder[1]) = 1

\* C8: once the cancellation token is raised, the scheduler loop and the
\* membership monitor each eventually terminate.
ShutdownTerminatesTasks ==
  cancelled ~> (schedPc \in {"done", "panicked"} /\ monPc = "done")

\* C9: with temperature 0 and a non-empty map, softmax_sample returns a key of
\* the map whose logit is the minimum of the logits.
ZeroTemperatureReturnsMin ==
  (sm_result # None /\ sm_temperature = 0 /\ DOMAIN sm_logits # {}) =>
    LET r == Unwrap(sm_result)
    IN /\ r.tag = "Key"
       /\ r.key \in DOMAIN sm_logits
       /\ \A k \in DOMAIN sm_logits : sm_logits[r.key] <= sm_logits[k]

\* C9 witness: a call at temperature 0 on three keys, two of them tied at a
\* negative minimum.
ZeroTemperatureWitness ==
  /\ sm_result # None /\ sm_temperature = 0
  /\ DOMAIN sm_logits = Keys
  /\ \E k1, k2 \in Keys :
       /\ k1 # k2 /\ sm_logits[k1] = sm_logits[k2] /\ sm_logits[k1] < 0
       /\ \A k \in Keys : sm_logits[k1] <= sm_logits[k]
       /\ \E k \in Keys : sm_logits[k] > sm_logits[k1]

\* C10: on a map of exactly one key, softmax_sample returns that key, for any
\* logit, any temperature and any random draw.
SingleKeyReturnsThatKey ==
  (sm_result # None /\ Cardinality(DOMAIN sm_logits) = 1) =>
    \A k \in DOMAIN sm_logits : Unwrap(sm_result) = Key(k)

\* C10 witness: a call at a positive temperature on a single key.
SingleKeyWitness ==
  /\ sm_result # None
  /\ Cardinality(DOMAIN sm_logits) = 1
  /\ sm_temperature > 0

\* the overlap weight in force for the call of the select_worker driver
SelWeight ==
  IF sel_request.weight_override = None
  THEN sel_selector.overlap_score_weight
  ELSE CHOOSE x \in sel_request.weight_override : TRUE

\* the temperature in force for the call of the select_worker driver
SelTemperature ==
  IF sel_request.temperature_override = None
  THEN sel_selector.router_temperature
  ELSE CHOOSE x \in sel_request.temperature_override : TRUE

\* prefill_tokens[w], isl_tokens without an entry
SelPrefill(w) ==
  IF w \in DOMAIN sel_request.prefill_tokens
  THEN sel_request.prefill_tokens[w] ELSE sel_request.isl_tokens

\* decode_blocks[w], floor(prefill_tokens[w] / block_size) without an entry
SelDecode(w) ==
  IF w \in DOMAIN sel_request.decode_blocks
  THEN sel_request.decode_blocks[w]
  ELSE CHOOSE d \in 0..SelPrefill(w) :
         d * BlockSize <= SelPrefill(w) /\ SelPrefill(w) < (d + 1) * BlockSize

\* block_size times the logit of worker w as the contract states it
SelLogitTimesBlockSize(w) ==
  SelWeight * SelPrefill(w) + BlockSize * SelDecode(w)

\* pd-separation as the contract states it: the config is present and has a
\* disaggregation mode other than prefill_and_decode
PdSeparatedByContract(cfg) ==
  cfg \notin {NoConfig, "no_mode", "prefill_and_decode"}

\* C11: at temperature 0 with the ISL gate disabled, select_worker on a
\* non-empty workers map returns a worker whose logit
\* weight * (prefill_tokens / block_size) + decode_blocks, with the defaults
\* isl_tokens and floor(prefill_tokens / block_size), is minimal over all
\* workers.
ZeroTemperatureSelectsMinLogit ==
  (/\ sel_result # None
   /\ SelTemperature = 0
   /\ ~sel_selector.use_isl_threshold
   /\ DOMAIN sel_workers # {}) =>
    LET r == Unwrap(sel_result)
    IN /\ r.tag = "Ok"
       /\ r.worker_id \in DOMAIN sel_workers
       /\ \A v \in DOMAIN sel_workers :
            SelLogitTimesBlockSize(r.worker_id) <= SelLogitTimesBlockSize(v)

\* C11 witness: a call at temperature 0 without the gate on two workers with
\* different logits, one of them using both defaults with isl_tokens not a
\* multiple of block_size.
MinLogitWitness ==
  /\ sel_result # None
  /\ SelTemperature = 0
  /\ ~sel_selector.use_isl_threshold
  /\ DOMAIN sel_workers = Workers
  /\ sel_request.isl_tokens % BlockSize # 0
  /\ \E w, v \in Workers :
       /\ w \notin DOMAIN sel_request.prefill_tokens
       /\ w \notin DOMAIN sel_request.decode_blocks
       /\ SelLogitTimesBlockSize(w) < SelLogitTimesBlockSize(v)
       /\ Unwrap(sel_result).tag = "Ok"
       /\ Unwrap(sel_result).worker_id = w

\* C12: select_worker fails with NoEndpoints exactly when the workers map is
\* empty, and on a non-empty map it returns a result whose worker_id is a key
\* of the map.
NoEndpointsOnlyWhenEmpty ==
  sel_result # None =>
    LET r == Unwrap(sel_result)
    IN /\ (r.tag = "NoEndpoints") <=> (DOMAIN sel_workers = {})
       /\ DOMAIN sel_workers # {} =>
            (r.tag = "Ok" /\ r.worker_id \in DOMAIN sel_workers)

\* C13: is_pd_separated is true of a worker only when its config is present
\* and has a disaggregation mode other than prefill_and_decode; it is false
\* without a config and false without a mode.
PdSeparatedOnlyWithMode ==
  (sel_result # None /\ sel_selector.use_isl_threshold) =>
    \A w \in DOMAIN sel_workers :
      is_pd_separated(sel_workers[w]) <=> PdSeparatedByContract(sel_workers[w])

\* C14: with the ISL gate enabled, the worker select_worker returns is a
\* candidate: not pd-separated with isl < threshold, or pd-separated with
\* isl >= threshold.
GateReturnsCandidate ==
  (sel_result # None /\ sel_selector.use_isl_threshold) =>
    LET r == Unwrap(sel_result)
        isl == sel_request.isl_tokens
        threshold == sel_selector.isl_threshold
    IN r.tag = "Ok" =>
         \/ ~PdSeparatedByContract(sel_workers[r.worker_id]) /\ isl < threshold
         \/ PdSeparatedByContract(sel_workers[r.worker_id]) /\ isl >= threshold

\* C15: a call of the scheduler's add_request with a request id the ledger
\* already holds fails with DuplicateRequest at its caller.
DuplicateAddReturnedToCaller ==
  \A id \in Requests :
    (addReturned[id] # NoCall /\ addReturned[id].ledger = "DuplicateRequest")
      => addReturned[id].caller = Failed("DuplicateRequest")

\* the events among the messages ms that decode, in the order of ms
RECURSIVE DecodedEvents(_)
DecodedEvents(ms) ==
  IF ms = <<>> THEN <<>>
  ELSE IF Head(ms).tag = "json"
       THEN <<Head(ms).event>> \o DecodedEvents(Tail(ms))
       ELSE DecodedEvents(Tail(ms))

\* C16: with reset = false and a downloaded snapshot E1..En, the indexer
\* receives E1..En in stored order before any stream message is forwarded,
\* and then the decoded stream messages in their arrival order.
ReplayThenStreamOrder ==
  (~router_reset_states /\ downloaded # None) =>
    LET events == CHOOSE es \in downloaded : TRUE
    IN /\ IsPrefix(kv_events, events \o DecodedEvents(dequeued))
       /\ indexerOpen =>
            kv_events = SubSeq(events, 1, replayed) \o DecodedEvents(dequeued)
       /\ dequeued # <<>> => replayed = Len(events)

\* C16 witness: a snapshot of two events was replayed, then three stream
\* messages were dequeued, one of which did not decode, and the indexer has
\* the two snapshot events followed by the two stream events.
ReplayThenStreamWitness ==
  /\ ~router_reset_states
  /\ downloaded = Some(<<1, 2>>)
  /\ Len(dequeued) = 3
  /\ kv_events = <<1, 2, 3, 4>>

\* the uuids that have an entry in the live-routers directory of the
\* subscriber's component
LiveRouters ==
  {u \in UUIDs : RouterKey(ComponentPath, u) \in router_entries}

\* C17 as stated: once the startup cleanup is over, every consumer that is
\* neither the task's own nor in the live-routers directory is deleted, and
\* the own consumer and those in the directory are not.
OrphansDeletedAtStartup ==
  (subPc = "loop" /\ peerDeletes = {}) =>
    consumers = {u \in UUIDs : u = consumer_uuid \/ u \in LiveRouters}

\* C17 amended: when both listings of the startup cleanup succeed, a deletion
\* is attempted for exactly the consumers that are neither the task's own nor
\* in the live-routers directory, and only those can be gone; when a listing
\* fails no consumer is deleted.
OrphansReapedWhenListed ==
  /\ reaped # None =>
       /\ \A r \in reaped : r = {u \in UUIDs : u # consumer_uuid /\ u \notin LiveRouters}
       /\ peerDeletes = {} => \A r \in reaped : UUIDs \ r \subseteq consumers
  /\ (reaped = None /\ peerDeletes = {}) => consumers = UUIDs

\* C17 witness: the cleanup ran with both listings, the own uuid has no entry
\* in the directory, one peer has, and the other peer's consumer is deleted.
OrphansReapedWitness ==
  /\ subPc = "loop"
  /\ reaped = Some({"p2"})
  /\ consumer_uuid \notin LiveRouters
  /\ consumers = {"self", "p1"}

\* C18: the router-deletion branch never deletes the subscriber's own
\* consumer, and never deletes a consumer for a key of another component.
PeerCleanupSparesSelfAndOthers ==
  \A key \in peerDeletes :
    /\ LastSegment(key) # consumer_uuid
    /\ StartsWith(key, RouterPrefix)

\* the data payloads of the messages ms, as items, in the order of ms
RECURSIVE DataItems(_)
DataItems(ms) ==
  IF ms = <<>> THEN <<>>
  ELSE IF Head(ms).tag = "wrapper" /\ Head(ms).data # None
       THEN <<[tag |-> "data", data |-> CHOOSE d \in Head(ms).data : TRUE]>>
              \o DataItems(Tail(ms))
       ELSE DataItems(Tail(ms))

\* every message of ms is well-formed, not final, and has data
AllMidStream(ms) ==
  \A i \in 1..Len(ms) :
    ms[i].tag = "wrapper" /\ ~ms[i].complete_final /\ ms[i].data # None

\* a happy path: mid-stream messages, then one well-formed final message
HappyPath(ms) ==
  /\ Len(ms) >= 1
  /\ AllMidStream(SubSeq(ms, 1, Len(ms) - 1))
  /\ ms[Len(ms)].tag = "wrapper" /\ ms[Len(ms)].complete_final

\* C19: on a happy path (every message but the last not final and with data,
\* the last final, then the close) the emitted items are exactly the data
\* payloads in arrival order, none is an error, and the sequence ends at the
\* close.
HappyPathEmitsPayloads ==
  /\ (~streamEnded /\ AllMidStream(received)) => emitted = DataItems(received)
  /\ HappyPath(received) =>
       /\ emitted = DataItems(received)
       /\ \A i \in 1..Len(emitted) : emitted[i].tag # "error"

\* C19 witness: two messages with data, the second one final, then the close.
HappyPathWitness ==
  /\ streamEnded
  /\ received = <<Wrapper(FALSE, Some("b")), Wrapper(TRUE, Some("a"))>>
  /\ emitted = <<Data("b"), Data("a")>>

\* C20: after the error for a message that arrives once complete_final is
\* true, the sequence emits no further item.
AfterEndErrorIsLast ==
  \A i \in 1..Len(emitted) :
    emitted[i] = AfterEndError => i = Len(emitted)

\* C21 as stated: in either state of is_complete_final, a message that fails
\* to decode makes the sequence emit one decode error item, leaves the flag as
\* it was, and the sequence goes on.
UndecodableEmitsDecodeError ==
  [][(received' = Append(received, NotJson)) =>
       /\ emitted' = Append(emitted, DecodeError)
       /\ is_complete_final' = is_complete_final
       /\ streamEnded' = FALSE]_vars

\* C21 amended: a message that fails to decode makes the sequence emit exactly
\* one error item, leaves is_complete_final as it was, and the sequence goes
\* on; the item is the decode error while is_complete_final is false, and the
\* "response received after generation ended" error once it is true.
UndecodableEmitsOneError ==
  [][(received' = Append(received, NotJson)) =>
       /\ emitted' = Append(emitted, IF is_complete_final THEN AfterEndError
                                                           ELSE DecodeError)
       /\ is_complete_final' = is_complete_final
       /\ streamEnded' = FALSE]_vars

\* C21 witness: an undecodable message before the final message and one after
\* it, each answered by its error item.
UndecodableWitness ==
  /\ received = <<NotJson, Wrapper(TRUE, None), NotJson>>
  /\ emitted = <<DecodeError, AfterEndError>>
  /\ is_complete_final
  /\ ~streamEnded

\* C22: when the channel closes while is_complete_final is false, the sequence
\* ends with no further item if the caller has stopped the request, and
\* otherwise emits exactly one "stream ended unexpectedly" error item and
\* ends; nothing is emitted after the end.
CloseBeforeFinalEndsOrErrs ==
  [][/\ (~streamEnded /\ streamEnded' /\ ~is_complete_final) =>
          /\ emitted' = IF is_stopped THEN emitted
                                      ELSE Append(emitted, StreamEndError)
          /\ is_complete_final' = FALSE
     /\ streamEnded => (streamEnded' /\ emitted' = emitted)]_vars

\* C22 witness: one message with data, then the caller stops the request and
\* the channel closes before a final message; the sequence has ended with the
\* data item alone.
CloseAfterStopWitness ==
  /\ streamEnded /\ is_stopped /\ ~is_complete_final
  /\ received = <<Wrapper(FALSE, Some("a"))>>
  /\ emitted = <<Data("a")>>

\* C23: a request for which the selector returned NoEndpoints or
\* AllWorkersBusy gets no hit-rate event, no reply with a worker and no ledger
\* reservation, and is neither re-enqueued nor dequeued again; from the sleep
\* the loop goes back to its top, and it ends only at a shutdown.
NoEndpointsRequestDropped ==
  /\ [](\A c \in Requests :
          decided[c] \in {"NoEndpoints", "AllWorkersBusy"} =>
            /\ ~(lastEvent.tag = "event" /\ lastEvent.c = c)
            /\ result[c].tag # "Ok"
            /\ AddCount(c) = 0
            /\ ~(addInFlight # NoAdd /\ addInFlight.request_id = c)
            /\ Cardinality({i \in 1..Len(deqOrder) : deqOrder[i] = c}) = 1
            /\ \A i \in 1..Len(queue) : queue[i] # c)
  /\ [](schedPc \in {"done", "panicked"} => cancelled)
  /\ [][schedPc = "sleep" => schedPc' \in {"sleep", "top"}]_vars

\* C23 witness: the first request was answered by NoEndpoints and the loop
\* has dequeued the second one.
NoEndpointsWitness ==
  /\ Len(deqOrder) = 2
  /\ decided[deqOrder[1]] = "NoEndpoints"
  /\ schedPc = "potential"
  /\ ~cancelled

\* C24: neither a failed publish nor a failed add_request ends the loop.
\* Whatever the publish returned, the loop goes on to the reply with the same
\* selection; the reply carries the selected worker and, for a request with
\* update_states and an id, the reservation on that worker is issued; whatever
\* the add_request returned, the reply stays delivered and the loop goes back
\* to its top.  Every request the loop is through with after an Ok selection
\* has its reply, and the loop ends only at a shutdown.
BestEffortStepsNeverAbort ==
  /\ [](\A c \in Requests :
          (Processed(c) /\ decided[c] = "Ok") => result[c].tag = "Ok")
  /\ [](schedPc \in {"done", "panicked"} => cancelled)
  /\ [][/\ (schedPc = "publish" /\ schedPc' # "publish") =>
            (schedPc' = "respond" /\ cur' = cur)
        /\ (schedPc = "respond" /\ schedPc' # "respond") =>
            (/\ result'[cur.c] = Routed(cur.selection.worker_id)
             /\ NeedsAdd(req[cur.c]) =>
                  (/\ schedPc' = "add"
                   /\ addInFlight' # NoAdd
                   /\ addInFlight'.request_id = cur.c
                   /\ addInFlight'.worker_id = cur.selection.worker_id))
        /\ (schedPc = "add" /\ schedPc' # "add") =>
            (schedPc' = "top" /\ result' = result /\ cpc' = cpc)]_vars

\* C24 witness: the publish for the first request failed, its add_request
\* found the id in the ledger, its caller has the reply, and the loop has
\* dequeued the second request.
BestEffortWitness ==
  /\ Len(deqOrder) = 2
  /\ schedPc = "potential"
  /\ lastEvent = NoEvent
  /\ result[deqOrder[1]].tag = "Ok"
  /\ Len(opsLog[deqOrder[1]]) = 2
  /\ opsLog[deqOrder[1]][2] = [op |-> "add", res |-> "DuplicateRequest",
                                worker |-> result[deqOrder[1]].worker_id]
  /\ ~cancelled

\* C25: whenever the monitor has processed every change of the two watch
\* channels, the ledger's worker set is the current set of instance ids and
\* the worker-to-config map has exactly those ids as keys, each mapped to its
\* runtime config if it has one and to absent otherwise; and a scheduling
\* decision is taken on the map as it stands when the decision is made.
MonitorInstallsMembership ==
  /\ []((monPc = "wait" /\ ~monDirty) =>
          /\ slotsWorkers = instances
          /\ DOMAIN workers_with_configs = instances
          /\ \A w \in instances :
               workers_with_configs[w] =
                 (IF w \in DOMAIN runtime_configs THEN runtime_configs[w]
                                                   ELSE NoConfig))
  /\ [][(schedPc = "select" /\ schedPc' # "select") =>
          /\ (cur'.selection.tag = "NoEndpoints") <=> (DOMAIN workers_with_configs = {})
          /\ cur'.selection.tag = "Ok" =>
               cur'.selection.worker_id \in DOMAIN workers_with_configs]_vars

\* C25 witness: the fleet went down and came back and worker 1 was given a
\* runtime config; the monitor has processed it all and a request was decided
\* on the map.
MembershipWitness ==
  /\ monPc = "wait" /\ ~monDirty /\ membershipChanged
  /\ instances = Workers
  /\ workers_with_configs = [w \in Workers |-> IF w = 1 THEN "prefill" ELSE NoConfig]
  /\ \E c \in Requests : decided[c] = "NoEndpoints"
  /\ \E c \in Requests : decided[c] = "Ok"

\* C26: the loop handles the ready sources in the priority cancellation >
\* worker departure > stream dequeue > tick > peer departure: a source is
\* handled only when no source of higher priority is ready, and with the
\* cancellation raised the loop does nothing but end.
HighestPriorityReadyHandled ==
  [][/\ (instance_event_rx' # instance_event_rx) => ~subCancelled
     /\ (dequeued' # dequeued \/ (dequeue_ready /\ ~dequeue_ready')) =>
          (~subCancelled /\ instance_event_rx = <<>>)
     /\ (tick_due /\ ~tick_due') =>
          (~subCancelled /\ instance_event_rx = <<>> /\ ~dequeue_ready)
     /\ (router_replicas' # router_replicas) =>
          (/\ ~subCancelled /\ instance_event_rx = <<>>
           /\ ~dequeue_ready /\ ~tick_due)
     /\ (subPc = "loop" /\ subCancelled /\ subPc' # subPc) =>
          (subPc' = "done" /\ ownShutdowns' = ownShutdowns + 2)]_vars

\* C26 witness: with all five sources ready the cancellation was handled, and
\* the four others are as they were.
AllReadyCancellationWitness ==
  /\ subPc = "done" /\ subCancelled /\ ownShutdowns = 2
  /\ instance_event_rx # <<>>
  /\ dequeue_ready /\ stream # <<>> /\ dequeued = <<>>
  /\ tick_due
  /\ router_replicas # <<>>

\* C27: a dequeued message that does not decode is skipped: nothing is
\* forwarded and the loop goes on; a decoded event the indexer cannot be sent
\* ends the task, and a decoded event that can be sent is forwarded; once the
\* task has ended no stream message is consumed.
DecodeFailureSkipsSendFailureEnds ==
  [][/\ (dequeued' # dequeued) =>
          (/\ Head(stream).tag # "json" =>
                (kv_events' = kv_events /\ subPc' = "loop")
           /\ (Head(stream).tag = "json" /\ ~indexerOpen) =>
                (kv_events' = kv_events /\ subPc' = "done")
           /\ (Head(stream).tag = "json" /\ indexerOpen) =>
                (/\ kv_events' = Append(kv_events, Head(stream).event)
                 /\ subPc' = "loop"))
     /\ (subPc = "done") =>
          (dequeued' = dequeued /\ stream' = stream /\ subPc' = "done")]_vars

\* C27 witness: a message that does not decode was skipped, the send of the
\* next one failed, the task has ended and a message is left in the stream.
SkipThenSendFailureWitness ==
  /\ subPc = "done" /\ ~subCancelled
  /\ dequeued = <<Garbage, Json(3)>>
  /\ kv_events = <<>>
  /\ stream = <<Json(4)>>

\* the positions inside a snapshot cycle, from the lock to the unlock
CyclePcs == LoopPcs \ {"loop"}

\* the steps of a cycle in the order of the code
CycleOrder == <<"lock", "stale", "purge", "dump", "upload">>

\* the two records of the release at the end of a cycle
Releases == {"unlock", "unlock_err"}

\* C28: snapshot maintenance is gated and ordered: a cycle runs only with
\* snapshot resources, after a tick that read a stream depth strictly above
\* the threshold, and with the snapshot lock held by this router at every one
\* of its steps; its steps are stale-worker removal, purge, dump, upload in
\* this order, each step only after all the earlier ones, and the release of
\* the lock comes last, no earlier than after the purge.
SnapshotGatedAndOrdered ==
  /\ [](subPc \in CyclePcs =>
          /\ snapshot_resources
          /\ message_count # None
          /\ Unwrap(message_count) > router_snapshot_threshold
          /\ snapshot_lock = Some(Self))
  /\ [](\A i \in DOMAIN cycle :
          \/ i <= Len(CycleOrder) /\ cycle[i] = CycleOrder[i]
          \/ i = Len(CycleOrder) /\ cycle[i] = "upload_err"
          \/ cycle[i] \in Releases /\ i = Len(cycle) /\ i > 3)
  /\ [][cycle' # cycle =>
          \/ subPc = "loop" /\ tick_due /\ cycle' = <<"lock">>
          \/ subPc \in CyclePcs /\ snapshot_lock = Some(Self)
               /\ \E step \in {"stale", "purge", "dump", "upload", "upload_err"}
                                \cup Releases :
                    cycle' = Append(cycle, step)]_vars

\* C28 witness: a tick below the threshold started nothing, the next tick
\* read a depth above it and the whole cycle ran and released the lock.
FullCycleWitness ==
  /\ subPc = "loop" /\ ticks = 2
  /\ message_count = Some(3)
  /\ cycle = CycleOrder \o <<"unlock">>
  /\ snapshot_lock = None

\* C29 as stated: after the lock was acquired the release is attempted before
\* any other event is handled, a cycle never ends the task, and a cycle that
\* failed at the purge or at the dump leaves the lock not held by this router
\* once the loop goes on.
FailedCycleLeavesLockFree ==
  /\ [][(subPc \in CyclePcs) =>
          /\ subPc' \in CyclePcs \cup {"loop"}
          /\ UNCHANGED <<dequeued, kv_events, instance_event_rx,
                         router_replicas, peerDeletes, ownShutdowns>>]_vars
  /\ []((subPc \notin CyclePcs /\ cycle # <<>>) =>
          cycle[Len(cycle)] \in Releases)
  /\ []((subPc \notin CyclePcs /\ cycle # <<>> /\ Len(cycle) <= Len(CycleOrder)) =>
          snapshot_lock # Some(Self))

\* C29: after the lock was acquired the release is attempted before any other
\* event is handled, whatever step of the cycle failed; a cycle never ends
\* the task; a release that succeeded leaves the lock not held by this
\* router, and a release that failed leaves the lock as it was.
ReleaseAttemptedAfterEveryCycle ==
  /\ [][(subPc \in CyclePcs) =>
          /\ subPc' \in CyclePcs \cup {"loop"}
          /\ UNCHANGED <<dequeued, kv_events, instance_event_rx,
                         router_replicas, peerDeletes, ownShutdowns>>]_vars
  /\ []((subPc \notin CyclePcs /\ cycle # <<>>) =>
          cycle[Len(cycle)] \in Releases)
  /\ []((subPc \notin CyclePcs /\ cycle # <<>> /\ cycle[Len(cycle)] = "unlock") =>
          snapshot_lock # Some(Self))
  /\ [][(subPc = "unlock" /\ subPc' = "loop" /\ cycle'[Len(cycle')] = "unlock_err") =>
          snapshot_lock' = snapshot_lock]_vars

\* C29 witness: the purge failed, the release succeeded, and the loop went on
\* to dequeue a message afterwards.
FailedCycleReleasedWitness ==
  /\ subPc = "loop"
  /\ cycle = <<"lock", "stale", "purge", "unlock">>
  /\ snapshot_lock = None
  /\ dequeued # <<>>

\* C30: this router and a peer router are never in the section between lock
\* and unlock at the same time, and whoever is in it holds the snapshot lock.
SnapshotSectionExclusive ==
  /\ ~(subPc \in CyclePcs /\ peerPc = "section")
  /\ subPc \in CyclePcs => snapshot_lock = Some(Self)
  /\ peerPc = "section" => snapshot_lock = Some(Peer)

\* C30 witness: the peer asked for the lock while this router was in its
\* section and got it only afterwards: it is in its section after this
\* router's whole cycle.
PeerAfterSelfWitness ==
  /\ peerPc = "section" /\ snapshot_lock = Some(Peer)
  /\ subPc = "loop"
  /\ cycle = CycleOrder \o <<"unlock">>

\* C31: the stale-worker step of a cycle sends RemoveWorker, once each, for
\* exactly the ids of the indexer's answer that are not live instances, and
\* for no live instance; without the indexer's answer it sends none; either
\* way the purge is the next step, and no other step of the cycle sends a
\* RemoveWorker.
StaleWorkersReaped ==
  [][(subPc \in CyclePcs) =>
       LET removed == SubSeq(remove_worker_tx', Len(remove_worker_tx) + 1,
                             Len(remove_worker_tx'))
           stale_ids == IF WorkersObtained
                        THEN Range(Unwrap(indexer_workers)) \ sub_instances
                        ELSE {}
       IN /\ SubSeq(remove_worker_tx', 1, Len(remove_worker_tx)) = remove_worker_tx
          /\ Range(removed) \cap sub_instances = {}
          /\ (subPc = "stale" /\ subPc' # subPc) =>
               /\ subPc' = "purge"
               /\ Range(removed) = stale_ids
               /\ Len(removed) = Cardinality(stale_ids)
          /\ (subPc # "stale") => removed = <<>>]_vars

\* C31 witness: the indexer answered with workers 2, 1 and 3, only worker 1
\* is a live instance, and the cycle removed 2 and 3 and went on to the purge.
TwoStaleWorkersWitness ==
  /\ indexer_workers = Some(<<2, 1, 3>>) /\ sub_instances = {1}
  /\ Len(cycle) >= 3 /\ cycle[3] = "purge"
  /\ remove_worker_tx = <<2, 3>>

\* the characters of a key after its last colon (the whole key without one)
KeySuffix(key) ==
  LET colons == {i \in 1..Len(key) : key[i] = Colon}
  IN IF colons = {} THEN key
     ELSE SubSeq(key, (CHOOSE i \in colons : \A j \in colons : j <= i) + 1, Len(key))

\* a string i64::from_str_radix(.., 16) accepts: an optional sign, then one
\* or more hex digits
ValidHex(str) ==
  LET digits == IF str # <<>> /\ str[1] \in {"+", "-"} THEN Tail(str) ELSE str
  IN digits # <<>> /\ \A i \in 1..Len(digits) : HexDigit(digits[i]) # None

\* C32: handling an instance event, a Delete whose key has a valid hex worker
\* id after its last colon sends exactly one RemoveWorker, with that id, to
\* an indexer that is alive; a Put, and a Delete whose suffix is not valid
\* hex, send nothing; the loop goes on in every case.
DeleteOfHexKeyRemovesWorker ==
  [][(instance_event_rx' # instance_event_rx) =>
       LET event == Head(instance_event_rx)
           suffix == KeySuffix(event.key)
       IN /\ subPc' = "loop"
          /\ (event.kind = "Delete" /\ ValidHex(suffix) /\ indexerOpen) =>
               /\ Len(remove_worker_tx') = Len(remove_worker_tx) + 1
               /\ SubSeq(remove_worker_tx', 1, Len(remove_worker_tx)) = remove_worker_tx
               /\ Some(remove_worker_tx'[Len(remove_worker_tx')]) = FromStrRadix16(suffix)
          /\ (event.kind # "Delete" \/ ~ValidHex(suffix)) =>
               remove_worker_tx' = remove_worker_tx]_vars

\* C32 witness: the Deletes of the keys ending in "10" and "-a" each removed
\* one worker, 16 and -10, and the loop went on to dequeue a message.
HexDeletesRemovedWitness ==
  /\ subPc = "loop"
  /\ instance_event_rx = <<>>
  /\ remove_worker_tx = <<16, 0 - 10>>
  /\ dequeued # <<>>

\* C33: the task ends only with a shutdown of its own durable consumer
\* attempted on the way out, after a cancellation as after a failed send to
\* the indexer, and once it has ended (so once the cancellation was handled)
\* no message is taken from the stream and none is forwarded to the indexer.
ShutdownOnEveryExit ==
  /\ [](subPc = "done" => ownShutdowns >= 1)
  /\ [][(subPc # "done" /\ subPc' = "done") => ownShutdowns' > ownShutdowns]_vars
  /\ [][(subPc = "done") =>
          (kv_events' = kv_events /\ stream' = stream /\ ownShutdowns' = ownShutdowns)]_vars

\* C33 witness: the loop forwarded a message, the cancellation was handled
\* with the consumer shut down, and the rest of the stream was left alone.
CancelledAfterForwardWitness ==
  /\ subPc = "done" /\ subCancelled /\ ownShutdowns >= 1
  /\ kv_events # <<>>
  /\ stream # <<>>

\* C34: generate keeps the protocol order: it registers the response stream,
\* then sends the request, then has the ack, then awaits the handshake, then
\* has the handshake; it returns the response sequence only after a
\* handshake that succeeded, and nothing is read from the response channel
\* otherwise; a failed request fails the call without the handshake being
\* awaited; a failed handshake fails the call with DetachedStreamReceiver or
\* ConnectionFailed.
GenerateProtocolOrder ==
  /\ \A i \in DOMAIN genLog :
       \/ i <= Len(ProtocolOrder) /\ genLog[i] = ProtocolOrder[i]
       \/ i = Len(genLog) /\ i = 3 /\ genLog[i] = "request_err"
       \/ i = Len(genLog) /\ i = 5
            /\ genLog[i] \in {"handshake_dropped", "handshake_refused"}
  /\ genResult = Some("Ok") <=> genLog = ProtocolOrder
  /\ (~streamEnded \/ received # <<>>) => genResult = Some("Ok")
  /\ (genLog # <<>> /\ genLog[Len(genLog)] = "request_err") =>
       (genPc = "done" /\ genResult = Some("RequestError"))
  /\ (genLog # <<>> /\ genLog[Len(genLog)] = "handshake_dropped") =>
       (genPc = "done" /\ genResult = Some("DetachedStreamReceiver"))
  /\ (genLog # <<>> /\ genLog[Len(genLog)] = "handshake_refused") =>
       (genPc = "done" /\ genResult = Some("ConnectionFailed"))

\* C34 witness: a call went through the whole protocol and its response
\* sequence has yielded an item.
GenerateReturnedStreamWitness ==
  /\ genPc = "done" /\ genResult = Some("Ok")
  /\ genLog = ProtocolOrder
  /\ emitted # <<>>
  /\ received # <<>>
  /\ ~streamEnded

\* C35 as stated: at every decision the workers of the potential loads (the
\* ledger's workers when they were computed) are the keys of the
\* worker-to-config map the decision reads.
DecisionSeesOneMembership ==
  [][(schedPc = "select" /\ schedPc' # "select") =>
       DOMAIN cur.decode_blocks = DOMAIN workers_with_configs]_vars

\* C36 as stated: the ledger holds no reservation for a request whose caller
\* dropped the reply channel before the scheduler replied.
NoReservationForAbandonedCall ==
  \A c \in Requests : cpc[c] = "abandoned" => c \notin DOMAIN ledger

EmptyMessageErrsAndFlagIsMonotone ==
  [][/\ (/\ received' # received
         /\ ~is_complete_final
         /\ Head(incoming) = Wrapper(FALSE, None)) =>
          /\ emitted' = Append(emitted, EmptyResponseError)
          /\ ~is_complete_final'
          /\ ~streamEnded'
     /\ is_complete_final => is_complete_final']_vars

\* C38 witness: a message without data and not final gave the error and the
\* sequence went on; the final message set the flag, and a later message that
\* says complete_final false left it set.
EmptyThenFinalThenMoreWitness ==
  /\ received = <<Wrapper(FALSE, None), Wrapper(TRUE, Some("a")),
                  Wrapper(FALSE, Some("b"))>>
  /\ emitted = <<EmptyResponseError, Data("a"), AfterEndError>>
  /\ is_complete_final

====
